---- MODULE Spec2Model ----
(***************************************************************************)
(* Model of the editorial document pipeline: the dedup store               *)
(* (libs/common/dedupe.py), the intake, understanding and editorial tasks  *)
(* (apps/worker-*/tasks.py) and the corroboration engine                   *)
(* (libs/tavily_client/client.py).                                         *)
(*                                                                         *)
(* Each component has its own specification over the same variables; the   *)
(* variables a specification does not use keep their idle value.           *)
(***************************************************************************)
EXTENDS Integers, Sequences, FiniteSets, TLC

VARIABLES
    seen_urls,      \* dedupe.py _seen_urls
    seen_hashes,    \* dedupe.py _seen_hashes
    w_pc,           \* per worker: position inside is_duplicate
    w_doc,          \* per worker: the doc passed to is_duplicate
    w_ret,          \* per worker: value returned by is_duplicate
    calls,          \* log of sequential is_duplicate calls
    q_intake,       \* queue "intake": pending fetch_extract units
    q_understanding,\* queue "understanding": docs sent by fetch_extract
    intake_last,    \* the latest fetch_extract execution (<<>> before the first)
    intake_sources, \* for each doc of q_understanding, the URL of its intake unit
    intake_dropped, \* intake units whose retry budget is exhausted
    q_und_in,       \* pending classify_ner units
    q_editorial,    \* queue "editorial": payloads sent by classify_ner
    und_last,       \* the latest classify_ner execution
    q_ed_in,        \* pending summarize_and_qc units
    q_ingestion,    \* queue "ingestion": payloads sent by summarize_and_qc
    ed_last,        \* the latest summarize_and_qc execution
    corr_in,        \* inputs of a corroborate_claims call
    corr_out,       \* its return value ("none" before the call)
    q_ing_in,       \* pending write_to_0711 units
    ing_created,    \* number of documents created in the knowledge store
    ing_execs,      \* number of write_to_0711 executions so far
    ing_last,       \* the latest write_to_0711 execution
    ch_in,          \* chunk_by_headings: the sections re.split returned and target_tokens
    ch_pos,         \* index of the next section of the loop; 0 after the return
    ch_current,     \* current_chunk
    ch_chunks,      \* chunks
    ch_cur_parts,   \* indices of the sections held by current_chunk
    ch_parts,       \* for each chunk, the indices of the sections it holds
    ch_trace,       \* for each section handled: buffer and section sizes, and what was done
    q_disc,         \* queue "discovery": pending plan_and_search units
    disc_last,      \* the latest plan_and_search execution
    call_in,        \* the arguments of a call of a library function
    call_out,       \* its return value and what it sent to the platform
    pipe_hist       \* per document URL, the stages that have executed for it

dedup_vars == <<seen_urls, seen_hashes>>
worker_vars == <<w_pc, w_doc, w_ret>>
intake_vars == <<q_intake, q_understanding, intake_last, intake_sources, intake_dropped>>
und_vars == <<q_und_in, q_editorial, und_last>>
ed_vars == <<q_ed_in, q_ingestion, ed_last>>
corr_vars == <<corr_in, corr_out>>
ing_vars == <<q_ing_in, ing_created, ing_execs, ing_last>>
\* the variables of the stages after corroboration
chunk_vars == <<ch_in, ch_pos, ch_current, ch_chunks, ch_cur_parts, ch_parts, ch_trace>>
disc_vars == <<q_disc, disc_last>>
call_vars == <<call_in, call_out>>
aux_vars == <<call_vars, pipe_hist>>
\* everything a call of a library function leaves alone
non_call_vars == <<seen_urls, seen_hashes, w_pc, w_doc, w_ret, calls,
                   q_intake, q_understanding, intake_last, intake_sources,
                   intake_dropped, q_und_in, q_editorial, und_last,
                   q_ed_in, q_ingestion, ed_last, corr_in, corr_out,
                   q_ing_in, ing_created, ing_execs, ing_last,
                   ch_in, ch_pos, ch_current, ch_chunks, ch_cur_parts, ch_parts,
                   ch_trace, q_disc, disc_last, pipe_hist>>
late_vars == <<ing_vars, chunk_vars, disc_vars, aux_vars>>
vars == <<seen_urls, seen_hashes, w_pc, w_doc, w_ret, calls,
          q_intake, q_understanding, intake_last, intake_sources,
          intake_dropped, q_und_in, q_editorial, und_last,
          q_ed_in, q_ingestion, ed_last, corr_in, corr_out,
          q_ing_in, ing_created, ing_execs, ing_last,
          ch_in, ch_pos, ch_current, ch_chunks, ch_cur_parts, ch_parts, ch_trace,
          q_disc, disc_last, call_in, call_out, pipe_hist>>

\* Remove the element at position i of a sequence.
RemoveAt(s, i) == [k \in 1..(Len(s) - 1) |-> IF k < i THEN s[k] ELSE s[k + 1]]

(***************************************************************************)
(* Dedup store: libs/common/dedupe.py                                      *)
(***************************************************************************)

\* doc.get('content_hash') of a doc that carries no content hash (None).
NoHash == "no_hash"

\* Python truthiness of a content hash: None (and "") are falsy.
Truthy(h) == h # NoHash

\* line 27: canonical_url in _seen_urls
UrlSeen(urls, u) == u \in urls

\* line 31: content_hash and content_hash in _seen_hashes
HashSeen(hashes, h) == Truthy(h) /\ h \in hashes

MarkUrlForgets(urls, u) == urls

\* A store that keeps the latest URL only.
MarkUrlEvicts(urls, u) == {u}

\* line 35: _seen_urls.add(canonical_url)
MarkUrl(urls, u) == urls \cup {u}

MarkHashForgets(hashes, h) == hashes

\* lines 36-37: if content_hash: _seen_hashes.add(content_hash)
MarkHash(hashes, h) == IF Truthy(h) THEN hashes \cup {h} ELSE hashes

\* is_duplicate run without interruption: its return value ...
is_duplicate(urls, hashes, u, h) ==
    IF UrlSeen(urls, u) THEN TRUE
    ELSE IF HashSeen(hashes, h) THEN TRUE
    ELSE FALSE

\* A store that records the URL of every call, duplicates included.
MarksUrlOfDuplicate(urls, hashes, u, h) == MarkUrl(urls, u)

\* ... and the store it leaves behind.
is_duplicate_urls(urls, hashes, u, h) ==
    IF is_duplicate(urls, hashes, u, h) THEN urls ELSE MarkUrl(urls, u)

is_duplicate_hashes(urls, hashes, u, h) ==
    IF is_duplicate(urls, hashes, u, h) THEN hashes ELSE MarkHash(hashes, h)

\* Canonical URLs and content hashes used to exercise the store directly.
DedupUrls == {"u1", "u2", "u3"}
DedupHashes == {"h1", "h2", NoHash}

IdleDedup == seen_urls = {} /\ seen_hashes = {}

(***************************************************************************)
(* Two intake workers inside is_duplicate at the same time.  The sets are  *)
(* plain module globals; a worker can be preempted between any two         *)
(* statements of is_duplicate.                                             *)
(***************************************************************************)
Workers == {"w1", "w2"}

IdleWorkers ==
    /\ w_pc = [w \in Workers |-> "idle"]
    /\ w_doc = [w \in Workers |-> [url |-> "u1", hash |-> NoHash]]
    /\ w_ret = [w \in Workers |-> "none"]

\* The worker enters is_duplicate(doc): lines 23-24.
WEnter(w) ==
    /\ w_pc[w] = "idle"
    /\ w_ret[w] = "none"
    /\ \E u \in DedupUrls, h \in DedupHashes :
          w_doc' = [w_doc EXCEPT ![w] = [url |-> u, hash |-> h]]
    /\ w_pc' = [w_pc EXCEPT ![w] = "l27"]
    /\ UNCHANGED <<w_ret, dedup_vars>>

\* lines 27-28
WCheckUrl(w) ==
    /\ w_pc[w] = "l27"
    /\ IF UrlSeen(seen_urls, w_doc[w].url)
       THEN /\ w_ret' = [w_ret EXCEPT ![w] = "True"]
            /\ w_pc' = [w_pc EXCEPT ![w] = "idle"]
       ELSE /\ w_pc' = [w_pc EXCEPT ![w] = "l31"]
            /\ UNCHANGED w_ret
    /\ UNCHANGED <<w_doc, dedup_vars>>

\* lines 31-32
WCheckHash(w) ==
    /\ w_pc[w] = "l31"
    /\ IF HashSeen(seen_hashes, w_doc[w].hash)
       THEN /\ w_ret' = [w_ret EXCEPT ![w] = "True"]
            /\ w_pc' = [w_pc EXCEPT ![w] = "idle"]
       ELSE /\ w_pc' = [w_pc EXCEPT ![w] = "l35"]
            /\ UNCHANGED w_ret
    /\ UNCHANGED <<w_doc, dedup_vars>>

\* line 35
WMarkUrl(w) ==
    /\ w_pc[w] = "l35"
    /\ seen_urls' = MarkUrl(seen_urls, w_doc[w].url)
    /\ w_pc' = [w_pc EXCEPT ![w] = "l36"]
    /\ UNCHANGED <<w_doc, w_ret, seen_hashes>>

\* lines 36-37
WMarkHash(w) ==
    /\ w_pc[w] = "l36"
    /\ seen_hashes' = MarkHash(seen_hashes, w_doc[w].hash)
    /\ w_pc' = [w_pc EXCEPT ![w] = "l39"]
    /\ UNCHANGED <<w_doc, w_ret, seen_urls>>

\* line 39
WReturnFalse(w) ==
    /\ w_pc[w] = "l39"
    /\ w_ret' = [w_ret EXCEPT ![w] = "False"]
    /\ w_pc' = [w_pc EXCEPT ![w] = "idle"]
    /\ UNCHANGED <<w_doc, dedup_vars>>

WorkerStep(w) ==
    /\ \/ WEnter(w)
       \/ WCheckUrl(w)
       \/ WCheckHash(w)
       \/ WMarkUrl(w)
       \/ WMarkHash(w)
       \/ WReturnFalse(w)
    /\ UNCHANGED <<calls, intake_vars, und_vars, ed_vars, corr_vars, late_vars>>

(***************************************************************************)
(* Sequential use of the store: one caller, one call at a time.            *)
(***************************************************************************)
MaxCalls == 4

IdleCalls == calls = <<>>

IsDuplicateCall ==
    /\ Len(calls) < MaxCalls
    /\ \E u \in DedupUrls, h \in DedupHashes :
          /\ calls' = Append(calls,
                [url |-> u, hash |-> h,
                 pre_urls |-> seen_urls, pre_hashes |-> seen_hashes,
                 ret |-> is_duplicate(seen_urls, seen_hashes, u, h)])
          /\ seen_urls' = is_duplicate_urls(seen_urls, seen_hashes, u, h)
          /\ seen_hashes' = is_duplicate_hashes(seen_urls, seen_hashes, u, h)
    /\ UNCHANGED <<worker_vars, intake_vars, und_vars, ed_vars, corr_vars, late_vars>>

(***************************************************************************)
(* URL canonicalization: libs/common/extract.py canonicalize_url           *)
(*                                                                         *)
(* A URL is [base, query, frag]: base is scheme://netloc/path, query the   *)
(* '&'-separated parameters in order, frag the fragment.  A parameter is   *)
(* [key, eq, val]: eq says whether it contains '='.                        *)
(***************************************************************************)

\* lines 77-80
tracking_params ==
    {"utm_source", "utm_medium", "utm_campaign", "utm_term", "utm_content",
     "fbclid", "gclid", "wt_mc", "wt_zmc", "_ga", "_gid"}

KeepParamIgnoresDenylist(p) == p.eq

\* lines 85-88: a parameter is kept when it has '=' and its key is not denied
KeepParam(p) == p.eq /\ p.key \notin tracking_params

\* A pass that removes only the first parameter it does not keep.
RemovesOneParamPerPass(url) ==
    LET drop == {k \in DOMAIN url.query : ~KeepParam(url.query[k])}
        first == CHOOSE k \in drop : \A j \in drop : k <= j
    IN [base |-> url.base,
        query |-> IF drop = {} THEN url.query
                  ELSE SubSeq(url.query, 1, first - 1)
                       \o SubSeq(url.query, first + 1, Len(url.query)),
        frag |-> ""]

\* lines 72-94: the fragment is not part of the returned string
canonicalize_url(url) ==
    [base |-> url.base, query |-> SelectSeq(url.query, KeepParam), frag |-> ""]

Param(k, v) == [key |-> k, eq |-> TRUE, val |-> v]
Url(b, q) == [base |-> b, query |-> q, frag |-> ""]

ArticleBase == "https://example.com/article"
OtherBase == "https://example.com/other"

IntakeUrls ==
    { Url(ArticleBase, <<>>),
      Url(ArticleBase, <<Param("utm_source", "x")>>),
      Url(ArticleBase, <<Param("id", "1")>>),
      Url(ArticleBase, <<Param("id", "1"), Param("fbclid", "y")>>),
      Url(OtherBase, <<>>) }

(***************************************************************************)
(* Content: libs/common/fetch.py compute_content_hash, dedupe.py           *)
(* canonicalize                                                            *)
(*                                                                         *)
(* An extracted text is [id, len]: id stands for the characters, len is    *)
(* len(text).                                                              *)
(***************************************************************************)
Texts ==
    { [id |-> "t_short", len |-> 99],
      [id |-> "t_min", len |-> 100],
      [id |-> "t_a", len |-> 5000],
      [id |-> "t_b", len |-> 5000] }

\* A digest that does not depend on the text.
HashOfNothing(text) == <<"sha256", "">>

\* fetch.py lines 61-63: SHA-256 hex digest of the text; distinct texts of
\* the model have distinct digests
compute_content_hash(text) == <<"sha256", text.id>>

\* dedupe.py lines 10-19
canonicalize(doc) ==
    [url |-> doc.url, text |-> doc.text,
     canonical_url |-> canonicalize_url(doc.url),
     content_hash |-> compute_content_hash(doc.text)]

(***************************************************************************)
(* Intake: apps/worker-intake/tasks.py fetch_extract                       *)
(*                                                                         *)
(* One intake worker runs fetch_extract on one unit at a time.  A unit is  *)
(* [url, retries]; retries is celery's request.retries.  What the outside  *)
(* world does during one execution is an environment record:               *)
(*   fetch: "ok" | "robots_denied" | "error"   (fetch_url)                 *)
(*   ctype: "html" | "pdf"                     (content-type header)       *)
(*   pdf:   "ok" | "error"                     (extract_pdf_text)          *)
(*   text:  the text extraction yields                                     *)
(*   send:  "ok" | "error"                     (celery.send_task)          *)
(***************************************************************************)
MaxUnits == 2

\* units in a batch of the understanding or the editorial worker
MaxStageUnits == 1

\* tasks.py line 55
MinTextLen == 100

\* tasks.py line 78: self.retry(countdown=60, max_retries=2)
IntakeMaxRetries == 2

AnyText == CHOOSE t \in Texts : TRUE

Env(f, c, p, t, s) == [fetch |-> f, ctype |-> c, pdf |-> p, text |-> t, send |-> s]

IntakeEnvs ==
    { Env("robots_denied", "html", "ok", AnyText, "ok"),
      Env("error", "html", "ok", AnyText, "ok"),
      Env("ok", "pdf", "error", AnyText, "ok") }
    \cup { Env("ok", c, "ok", t, s) :
             c \in {"html", "pdf"}, t \in Texts, s \in {"ok", "error"} }

UnitSeqs(n) == UNION { [1..k -> IntakeUrls] : k \in 0..n }

IdleIntake ==
    /\ q_intake = <<>>
    /\ q_understanding = <<>>
    /\ intake_last = <<>>
    /\ intake_sources = <<>>
    /\ intake_dropped = <<>>

OnFetchFailureRaises(env) == "raise"

OnFetchFailureForwards(env) == "success"

\* lines 29-33: any exception of fetch_url ends the task with a result
OnFetchFailure(env) == "Fetch failed"

\* fetch.py lines 41-56: the robots.txt check raises before requests.get
PageRequested(env) == env.fetch # "robots_denied"

\* The outcome of the body of fetch_extract (lines 21-74) for canonical URL
\* cu under env, against the store (urls, hashes): a result string, or
\* "raise" when an exception reaches the outer handler.
IntakeOutcome(cu, env, urls, hashes) ==
    IF env.fetch # "ok" THEN OnFetchFailure(env)
    ELSE IF env.ctype = "pdf" /\ env.pdf = "error" THEN "PDF extraction failed"
    ELSE IF env.text.len < MinTextLen THEN "Content too short"
    ELSE LET doc == canonicalize([url |-> cu, text |-> env.text])
         IN IF is_duplicate(urls, hashes, doc.canonical_url, doc.content_hash)
            THEN "Duplicate content"
            ELSE IF env.send = "ok" THEN "success" ELSE "raise"

ReachesDedupBeforeLengthCheck(env) ==
    /\ env.fetch = "ok"
    /\ ~(env.ctype = "pdf" /\ env.pdf = "error")

\* Whether the execution got as far as calling is_duplicate (line 62).
ReachesDedup(env) ==
    /\ env.fetch = "ok"
    /\ ~(env.ctype = "pdf" /\ env.pdf = "error")
    /\ env.text.len >= MinTextLen

\* A retry test that allows one retry more than max_retries.
CanRetryOnceMore(retries, max_retries) == retries <= max_retries

\* celery Task.retry: the unit is sent again with retries + 1 unless that
\* exceeds max_retries
CanRetry(retries, max_retries) == retries + 1 <= max_retries

fetch_extract(i, env) ==
    LET unit == q_intake[i]
        cu == canonicalize_url(unit.url)
        out == IntakeOutcome(cu, env, seen_urls, seen_hashes)
        doc == canonicalize([url |-> cu, text |-> env.text])
        rest == RemoveAt(q_intake, i)
        result == IF out # "raise" THEN out
                  ELSE IF CanRetry(unit.retries, IntakeMaxRetries)
                       THEN "retry" ELSE "retries_exhausted"
    IN /\ IF ReachesDedup(env)
          THEN /\ seen_urls' = is_duplicate_urls(seen_urls, seen_hashes,
                                    doc.canonical_url, doc.content_hash)
               /\ seen_hashes' = is_duplicate_hashes(seen_urls, seen_hashes,
                                    doc.canonical_url, doc.content_hash)
          ELSE UNCHANGED dedup_vars
       /\ q_understanding' =
             IF out = "success" THEN Append(q_understanding, doc)
             ELSE q_understanding
       /\ q_intake' =
             IF result = "retry"
             THEN Append(rest, [url |-> unit.url, retries |-> unit.retries + 1])
             ELSE rest
       /\ intake_dropped' =
             IF result = "retries_exhausted" THEN Append(intake_dropped, unit)
             ELSE intake_dropped
       /\ intake_sources' =
             IF out = "success" THEN Append(intake_sources, unit.url)
             ELSE intake_sources
       /\ intake_last' =
             <<[url |-> unit.url, retries |-> unit.retries, canonical_url |-> cu,
                env |-> env, result |-> result,
                forwarded |-> Len(q_understanding') > Len(q_understanding),
                retried |-> Len(q_intake') - Len(rest),
                page_requested |-> PageRequested(env),
                duplicate |-> /\ ReachesDedup(env)
                              /\ is_duplicate(seen_urls, seen_hashes,
                                     doc.canonical_url, doc.content_hash),
                store_changed |-> dedup_vars' # dedup_vars,
                submitted |-> IF ReachesDedup(env) THEN <<doc>> ELSE <<>>]>>

FetchExtract ==
    /\ \E i \in 1..Len(q_intake), env \in IntakeEnvs : fetch_extract(i, env)
    /\ UNCHANGED <<worker_vars, calls, und_vars, ed_vars, corr_vars, late_vars>>

(***************************************************************************)
(* Corroboration engine: libs/tavily_client/client.py corroborate_claims   *)
(*                                                                         *)
(* A string is a sequence of characters.  A search result is               *)
(* [has, text, url]: has says whether the result carries a "content" key   *)
(* with a value other than None, text is that content.                     *)
(***************************************************************************)

\* str.lower() on one character
Lower(ch) ==
    CASE ch = "A" -> "a"
      [] ch = "B" -> "b"
      [] ch = "C" -> "c"
      [] OTHER -> ch

LowerStr(s) == [i \in 1..Len(s) |-> Lower(s[i])]

\* needle in hay (substring test)
Contains(hay, needle) ==
    \E i \in 0..(Len(hay) - Len(needle)) :
        SubSeq(hay, i + 1, i + Len(needle)) = needle

\* s[:n] for n >= 0
Take(s, n) == SubSeq(s, 1, IF n < Len(s) THEN n ELSE Len(s))

\* line 101: result.get("content") and claim.lower() in result["content"].lower()
Matches(claim, result) ==
    result.has /\ result.text # <<>>
    /\ Contains(LowerStr(result.text), LowerStr(claim))

\* lines 99-107: the citations of one claim, in search order
ClaimCitations(claim, results) ==
    LET Hit(r) == Matches(claim, r)
        hits == SelectSeq(results, Hit)
    IN [k \in 1..Len(hits) |-> [claim |-> claim, url |-> hits[k].url]]

(* IEEE 754 double arithmetic of line 114, len(claims) * 0.8.  Numbers are *)
(* little-endian bit sequences without leading zeros (<<>> is 0).          *)

\* significand width of a double
MantBits == 53

\* 0.8 as a double is 0x1999999999999A * 2^-53; hex digits, most significant first
Point8Hex == <<1, 9, 9, 9, 9, 9, 9, 9, 9, 9, 9, 9, 9, 10>>

RECURSIVE NatBits(_)
NatBits(n) == IF n = 0 THEN <<>> ELSE <<n % 2>> \o NatBits(n \div 2)

Zeros(d) == [i \in 1..d |-> 0]

RECURSIVE StripZeros(_)
StripZeros(b) ==
    IF b = <<>> THEN <<>>
    ELSE IF b[Len(b)] = 0 THEN StripZeros(SubSeq(b, 1, Len(b) - 1)) ELSE b

RECURSIVE HexBits(_)
HexBits(ds) ==
    IF ds = <<>> THEN <<>>
    ELSE LET d == NatBits(ds[Len(ds)])
         IN d \o Zeros(4 - Len(d)) \o HexBits(SubSeq(ds, 1, Len(ds) - 1))

Point8Bits == StripZeros(HexBits(Point8Hex))

RECURSIVE AddCarry(_, _, _)
AddCarry(a, b, c) ==
    IF a = <<>> /\ b = <<>> THEN (IF c = 1 THEN <<1>> ELSE <<>>)
    ELSE LET x == IF a = <<>> THEN 0 ELSE a[1]
             y == IF b = <<>> THEN 0 ELSE b[1]
             t == x + y + c
         IN <<t % 2>> \o AddCarry(IF a = <<>> THEN a ELSE Tail(a),
                                  IF b = <<>> THEN b ELSE Tail(b), t \div 2)

AddBits(a, b) == AddCarry(a, b, 0)

\* 2 * a
Twice(a) == IF a = <<>> THEN <<>> ELSE <<0>> \o a

\* a * n, exactly, by binary long multiplication
RECURSIVE MulSmall(_, _)
MulSmall(a, n) ==
    IF n = 0 THEN <<>>
    ELSE IF n % 2 = 0 THEN Twice(MulSmall(a, n \div 2))
    ELSE AddBits(a, Twice(MulSmall(a, n \div 2)))

\* round to nearest, ties to even, keeping k significant bits
RoundBits(p, k) ==
    IF Len(p) <= k THEN p
    ELSE LET d == Len(p) - k
             kept == SubSeq(p, d + 1, Len(p))
             sticky == \E j \in 1..(d - 1) : p[j] = 1
             up == p[d] = 1 /\ (sticky \/ kept[1] = 1)
         IN Zeros(d) \o (IF up THEN AddBits(kept, <<1>>) ELSE kept)

\* a >= b
GEBits(a, b) ==
    \/ Len(a) > Len(b)
    \/ /\ Len(a) = Len(b)
       /\ \/ a = b
          \/ \E i \in 1..Len(a) :
                /\ a[i] > b[i]
                /\ \A j \in (i + 1)..Len(a) : a[j] = b[j]

\* float(n) * 0.8, scaled by 2^53
FloatMulPoint8(n) == RoundBits(MulSmall(Point8Bits, n), MantBits)

\* the integer n on the scale of FloatMulPoint8 (n * 2^53)
Scaled(n) == IF n = 0 THEN <<>> ELSE Zeros(MantBits) \o NatBits(n)

MeetsThresholdStrict(verified, total) ==
    /\ GEBits(Scaled(verified), FloatMulPoint8(total))
    /\ Scaled(verified) # FloatMulPoint8(total)

\* line 114: verified_claims >= len(claims) * 0.8
MeetsThreshold(verified, total) ==
    GEBits(Scaled(verified), FloatMulPoint8(total))

\* line 109: len(claim_citations) >= required
Verified(cc, required) == Len(cc) >= required

KeptCitationsUncapped(cc, required) == cc

\* line 111: claim_citations[:required]
KeptCitations(cc, required) == Take(cc, required)

\* lines 92-111: the loop over the first i claims; results[i] is what
\* tavily_search returned for claims[i]
RECURSIVE CorroborateLoop(_, _, _, _)
CorroborateLoop(claims, required, results, i) ==
    IF i = 0 THEN [verified |-> 0, citations |-> <<>>]
    ELSE LET prev == CorroborateLoop(claims, required, results, i - 1)
             cc == ClaimCitations(claims[i], results[i])
         IN IF Verified(cc, required)
            THEN [verified |-> prev.verified + 1,
                  citations |-> prev.citations \o KeptCitations(cc, required)]
            ELSE prev

\* lines 89-116; verified is the local verified_claims
corroborate_claims(claims, required, results) ==
    LET r == CorroborateLoop(claims, required, results, Len(claims))
    IN [done |-> TRUE,
        success |-> MeetsThreshold(r.verified, Len(claims)),
        citations |-> r.citations,
        verified |-> r.verified]

(***************************************************************************)
(* Understanding: apps/worker-understanding/tasks.py classify_ner          *)
(*                                                                         *)
(* A unit is [doc, retries].  Environment of one execution:                *)
(*   cls, ner, chunk: "ok" | "error"   (classify_json, ner_link,           *)
(*                                      chunk_by_headings raise or not)    *)
(*   embed: "ok" | "api_error" | "client_error"                            *)
(*          (the embeddings request fails / the client cannot be built)    *)
(*   send:  "ok" | "error"             (celery.send_task)                  *)
(***************************************************************************)

\* tasks.py line 89: self.retry(countdown=60, max_retries=2)
UndMaxRetries == 2

\* tasks.py line 31
DefaultLabels == [doc_type |-> "article", language |-> "en", audience |-> "general"]

\* a classification returned by classify_json
LlmLabels == [doc_type |-> "law", language |-> "de", audience |-> "expert"]

\* the chunk list chunk_by_headings returned for the text
Chunked(text) == <<[of |-> text.id, part |-> "1"], [of |-> text.id, part |-> "2"]>>

\* tasks.py line 51: chunks = [doc["text"]]
WholeText(text) == <<[of |-> text.id, part |-> "whole"]>>

\* libs/common/embed.py lines 5-24, once the client exists: one vector per
\* chunk, zero vectors when the request fails
embed_chunks(chunks, outcome) ==
    IF chunks = <<>> THEN <<>>
    ELSE IF outcome = "ok" THEN [i \in 1..Len(chunks) |-> "embedding"]
    ELSE [i \in 1..Len(chunks) |-> "zeros"]

UndEnvs ==
    [cls : {"ok", "error"}, ner : {"ok", "error"}, chunk : {"ok", "error"},
     embed : {"ok", "api_error", "client_error"}, send : {"ok", "error"}]

EmbedFailureEscapes(env) == env.embed = "client_error"

\* tasks.py lines 26-59: each sub-step is wrapped in try / except Exception,
\* so no sub-step failure leaves the guarded calls
SubStepEscapes(env) == FALSE

\* lines 26-31
UndLabels(env) == IF env.cls = "ok" THEN LlmLabels ELSE DefaultLabels

\* lines 34-39
UndEntities(env) == IF env.ner = "ok" THEN <<"entity">> ELSE <<>>
UndEdges(env) == IF env.ner = "ok" THEN <<"edge">> ELSE <<>>

\* A chunking fallback that forwards no chunk at all.
UndChunksFallbackEmpty(doc, env) ==
    IF env.chunk = "ok" THEN Chunked(doc.text) ELSE <<>>

\* lines 42-51
UndChunks(doc, env) ==
    IF env.chunk = "ok" THEN Chunked(doc.text) ELSE WholeText(doc.text)

\* lines 54-59
UndVectors(doc, env) ==
    IF env.embed = "client_error" THEN <<>>
    ELSE embed_chunks(UndChunks(doc, env), env.embed)

\* lines 62-69
UndPayload(doc, env) ==
    [url |-> doc.url, text |-> doc.text,
     canonical_url |-> doc.canonical_url, content_hash |-> doc.content_hash,
     labels |-> UndLabels(env),
     entities |-> UndEntities(env), edges |-> UndEdges(env),
     chunks |-> UndChunks(doc, env), vectors |-> UndVectors(doc, env),
     needs_review |-> "unset"]

\* lines 22-89: "success", or "raise" when an exception reaches line 87
UndOutcome(env) ==
    IF SubStepEscapes(env) THEN "raise"
    ELSE IF env.send = "ok" THEN "success" ELSE "raise"

classify_ner(i, env) ==
    LET unit == q_und_in[i]
        out == UndOutcome(env)
        rest == RemoveAt(q_und_in, i)
        result == IF out # "raise" THEN out
                  ELSE IF CanRetry(unit.retries, UndMaxRetries)
                       THEN "retry" ELSE "retries_exhausted"
    IN /\ q_editorial' =
             IF out = "success"
             THEN Append(q_editorial, UndPayload(unit.doc, env))
             ELSE q_editorial
       /\ q_und_in' =
             IF result = "retry"
             THEN Append(rest, [doc |-> unit.doc, retries |-> unit.retries + 1])
             ELSE rest
       /\ und_last' =
             <<[doc |-> unit.doc, retries |-> unit.retries, env |-> env,
                result |-> result,
                emitted |-> Len(q_editorial') - Len(q_editorial),
                retried |-> Len(q_und_in') - Len(rest)]>>

ClassifyNer ==
    /\ \E i \in 1..Len(q_und_in), env \in UndEnvs : classify_ner(i, env)
    /\ UNCHANGED <<dedup_vars, worker_vars, calls, intake_vars, ed_vars, corr_vars,
                 late_vars>>

\* Docs as fetch_extract forwards them.
PipelineDocs ==
    { canonicalize([url |-> Url(ArticleBase, <<>>), text |-> t]) :
        t \in {x \in Texts : x.len >= MinTextLen /\ x.id # "t_b"} }

(***************************************************************************)
(* Editorial: apps/worker-editorial/tasks.py summarize_and_qc              *)
(*                                                                         *)
(* A unit is [payload, retries].  Environment of one execution:            *)
(*   sum:    "ok" | "error"       (summarize_with_citations)               *)
(*   claims: "ok" | "error"       (extract_claims), n claims when ok       *)
(*   corr:   "raise", or the pattern of search results the corroboration   *)
(*           run receives                                                  *)
(*   send:   "ok" | "error"       (celery.send_task)                       *)
(***************************************************************************)

\* tasks.py line 81: self.retry(countdown=60, max_retries=2)
EdMaxRetries == 2

\* tasks.py line 31
AbstractFallbackChars == 500

\* tasks.py line 36: claims[:10]
MaxClaims == 10

\* tasks.py line 46: corroborate_claims(claims, required=2)
RequiredCitations == 2

ClaimMarks == <<"1", "2", "3", "4", "5", "6", "7", "8", "9", "t", "e", "w">>

\* the i-th claim extract_claims returned
ClaimText(i) == <<"A", ClaimMarks[i]>>
ExtractedClaims(n) == [i \in 1..n |-> ClaimText(i)]

\* a search result whose content holds the claim in another case
HitFor(claim, k) ==
    [has |-> TRUE, text |-> <<"x">> \o LowerStr(claim) \o <<"y">>, url |-> k]

\* what tavily_search returns for each claim under a pattern
SearchResults(claims, pattern) ==
    [i \in 1..Len(claims) |->
        CASE pattern = "all" -> <<HitFor(claims[i], 1), HitFor(claims[i], 2)>>
          [] pattern = "first_only" ->
                IF i = 1 THEN <<HitFor(claims[i], 1), HitFor(claims[i], 2)>>
                ELSE <<HitFor(claims[i], 1)>>
          [] OTHER -> <<>>]

\* numbers of claims extract_claims returns in the model
ClaimCounts == {2, 11}
CorrOutcomes == {"raise", "all", "first_only", "none"}

\* lines 25-31
EdAbstractAlwaysTruncates(payload, env) ==
    IF env.sum = "ok" THEN [kind |-> "llm", chars |-> 0, ellipsis |-> FALSE]
    ELSE [kind |-> "text", chars |-> AbstractFallbackChars, ellipsis |-> TRUE]

EdAbstract(payload, env) ==
    IF env.sum = "ok" THEN [kind |-> "llm", chars |-> 0, ellipsis |-> FALSE]
    ELSE IF payload.text.len > AbstractFallbackChars
         THEN [kind |-> "text", chars |-> AbstractFallbackChars, ellipsis |-> TRUE]
         ELSE [kind |-> "text", chars |-> payload.text.len, ellipsis |-> FALSE]

\* A claim list forwarded as extracted, without the cut of line 36.
EdClaimsUncapped(env) ==
    IF env.claims = "ok" THEN ExtractedClaims(env.n) ELSE <<>>

\* lines 34-40
EdClaims(env) ==
    IF env.claims = "ok" THEN Take(ExtractedClaims(env.n), MaxClaims) ELSE <<>>

NoVerdict == [done |-> FALSE, success |-> FALSE, citations |-> <<>>, verified |-> 0]

\* line 46: what corroborate_claims(claims, required=2) returns for the
\* search results of the pattern
CorroborationOf(claims, n, corr) ==
    IF claims # "ok" \/ n = 0 \/ corr = "raise" THEN NoVerdict
    ELSE corroborate_claims(Take(ExtractedClaims(n), MaxClaims), RequiredCitations,
             SearchResults(Take(ExtractedClaims(n), MaxClaims), corr))

\* corr plays no part when there is no claim to check; verdict is the
\* value the corroboration call returns in this execution
EdEnvs ==
    { [sum |-> s, claims |-> c[1], n |-> c[2], corr |-> c[3], send |-> d,
       verdict |-> CorroborationOf(c[1], c[2], c[3])] :
        s \in {"ok", "error"}, d \in {"ok", "error"},
        c \in {<<"error", 0, "none">>, <<"ok", 0, "none">>}
              \cup { <<"ok", n, o>> : n \in ClaimCounts, o \in CorrOutcomes } }

EdCorroboration(env) == env.verdict

\* line 44: if claims:
CorroborationCalled(env) == EdClaims(env) # <<>>

\* lines 43-56
EdCitations(env) ==
    IF EdClaims(env) = <<>> \/ env.corr = "raise" THEN <<>>
    ELSE EdCorroboration(env).citations

\* lines 44-56: the flag is set at line 53 only, after a returned verdict
EdNeedsReview(payload, env) ==
    IF EdClaims(env) # <<>> /\ env.corr # "raise" /\ ~EdCorroboration(env).success
    THEN "True" ELSE payload.needs_review

EdPayloadWithoutClaims(payload, env) ==
    [payload EXCEPT !.needs_review = EdNeedsReview(payload, env),
                    !.abstract = <<EdAbstract(payload, env)>>,
                    !.abstract_citations = <<EdCitations(env)>>]

\* lines 59-61, on the payload as line 53 left it; a key the payload does
\* not hold yet is <<>>, a key it holds is <<value>>
EdPayload(payload, env) ==
    [payload EXCEPT !.needs_review = EdNeedsReview(payload, env),
                    !.abstract = <<EdAbstract(payload, env)>>,
                    !.abstract_citations = <<EdCitations(env)>>,
                    !.editorial_claims = <<EdClaims(env)>>]

\* lines 21-81: "success", or "raise" when an exception reaches line 79
EdOutcome(env) == IF env.send = "ok" THEN "success" ELSE "raise"

summarize_and_qc(i, env) ==
    LET unit == q_ed_in[i]
        out == EdOutcome(env)
        new == EdPayload(unit.payload, env)
        rest == RemoveAt(q_ed_in, i)
        result == IF out # "raise" THEN out
                  ELSE IF CanRetry(unit.retries, EdMaxRetries)
                       THEN "retry" ELSE "retries_exhausted"
    IN /\ q_ingestion' =
             IF out = "success" THEN Append(q_ingestion, new) ELSE q_ingestion
       \* the task mutates its argument, so a retry carries the changed payload
       /\ q_ed_in' =
             IF result = "retry"
             THEN Append(rest, [payload |-> new, retries |-> unit.retries + 1])
             ELSE rest
       /\ ed_last' =
             <<[text |-> unit.payload.text, retries |-> unit.retries, env |-> env,
                result |-> result,
                emitted |-> Len(q_ingestion') - Len(q_ingestion),
                retried |-> Len(q_ed_in') - Len(rest),
                corroborate_called |-> CorroborationCalled(env)]>>

SummarizeAndQc ==
    /\ \E i \in 1..Len(q_ed_in), env \in EdEnvs : summarize_and_qc(i, env)
    /\ UNCHANGED <<dedup_vars, worker_vars, calls, intake_vars, und_vars, corr_vars,
                 late_vars>>

\* documents reaching the editorial stage, with texts on both sides of the
\* boundary of the fallback abstract (editorial tasks.py line 31)
EdBoundaryDocs ==
    { canonicalize([url |-> Url(OtherBase, <<>>), text |-> t]) :
        t \in { [id |-> "t_500", len |-> AbstractFallbackChars],
                [id |-> "t_501", len |-> AbstractFallbackChars + 1] } }

\* Payloads as classify_ner forwards them, before editorial adds its keys.
EditorialInputs ==
    { [url |-> p.url, text |-> p.text, canonical_url |-> p.canonical_url,
       content_hash |-> p.content_hash, labels |-> p.labels,
       entities |-> p.entities, edges |-> p.edges, chunks |-> p.chunks,
       vectors |-> p.vectors, needs_review |-> p.needs_review,
       abstract |-> <<>>, abstract_citations |-> <<>>, editorial_claims |-> <<>>] :
      p \in { UndPayload(d, [cls |-> "ok", ner |-> "ok", chunk |-> "ok",
                             embed |-> "ok", send |-> "ok"]) :
              d \in EdBoundaryDocs } }

(***************************************************************************)
(* Inputs for corroborate_claims called on its own                         *)
(***************************************************************************)

\* results returned by one search in the model (the code asks for 5)
MaxResults == 2

\* claims of the acceptance-threshold runs
MaxTotal == 10

ClaimAb == <<"A", "b">>
ClaimB == <<"b">>

CorrClaimLists == {<<>>, <<ClaimAb>>, <<ClaimAb, ClaimB>>, <<ClaimB, ClaimB>>}

CorrRequired == {0, 1, 2}

\* no content key, empty content, content holding "ab" in another case,
\* content holding "b" but not "ab"
CorrContents ==
    { [has |-> FALSE, text |-> <<>>],
      [has |-> TRUE, text |-> <<>>],
      [has |-> TRUE, text |-> <<"x", "a", "B">>],
      [has |-> TRUE, text |-> <<"B", "a">>] }

ResultLists ==
    { [k \in 1..Len(cs) |-> [has |-> cs[k].has, text |-> cs[k].text, url |-> k]] :
        cs \in UNION { [1..n -> CorrContents] : n \in 0..MaxResults } }

Corroborate ==
    /\ ~corr_out.done
    /\ corr_out' = corroborate_claims(corr_in.claims, corr_in.required,
                                      corr_in.results)
    /\ UNCHANGED <<corr_in, dedup_vars, worker_vars, calls, intake_vars,
                   und_vars, ed_vars, late_vars>>

(***************************************************************************)
(* Ingestion: apps/worker-ingestion/tasks.py write_to_0711                 *)
(*                                                                         *)
(* A unit is [payload, retries].                                           *)
(* Environment of one execution:                                           *)
(*   coll:    "ok" | "error"          (create_collection_if_missing)       *)
(*   upsert:  "error", or the id the store returns (upsert_document)       *)
(*   graph:   "ok" | "error"          (graph_upsert)                       *)
(*   reindex: "ok" | "error"          (reindex_document)                   *)
(***************************************************************************)

\* tasks.py line 43: self.retry(countdown=60, max_retries=2)
IngUpsertMaxRetries == 2

\* tasks.py line 77: self.retry(countdown=60, max_retries=3)
IngMaxRetries == 3

DocIds == {"d1", "d2"}

\* graph_upsert and reindex_document are reached only after a successful
\* upsert, so their outcomes are enumerated only there
IngEnvs ==
    { [coll |-> c, upsert |-> "error", graph |-> "ok", reindex |-> "ok"] :
        c \in {"ok", "error"} }
    \cup [coll : {"ok", "error"}, upsert : DocIds,
          graph : {"ok", "error"}, reindex : {"ok", "error"}]

\* lines 30-39: the except of lines 33-35 absorbs a failure to ensure the
\* collection, so upsert_document is always called
UpsertCalled(env) == TRUE

\* lines 38-39
UpsertFails(env) == env.upsert = "error"

\* line 51: if entities or edges
GraphCalled(payload, env) ==
    ~UpsertFails(env) /\ (payload.entities # <<>> \/ payload.edges # <<>>)

ReindexSkippedAfterGraphFailure(env) == ~UpsertFails(env) /\ env.graph = "ok"

\* line 60: reached whenever the upsert succeeded; the except of lines 54-56
\* absorbs a graph failure
ReindexCalled(env) == ~UpsertFails(env)

\* line 43 raises inside the try that starts at line 25: self.retry raises
\* celery's Retry after sending the unit again, or MaxRetriesExceededError
\* without sending; both derive from Exception, so the handler of lines
\* 75-77 runs and calls self.retry a second time.  The result is the number
\* of units that second call sends.
RetryRaiseCaught(retries) == IF CanRetry(retries, IngMaxRetries) THEN 1 ELSE 0

\* units sent again by the execution of a unit whose upsert failed
RetriesScheduled(retries) ==
    (IF CanRetry(retries, IngUpsertMaxRetries) THEN 1 ELSE 0)
    + RetryRaiseCaught(retries)

\* lines 25-77: "success" (lines 67-73), "retry" (celery's Retry leaves the
\* task) or "failed" (MaxRetriesExceededError leaves the task)
IngOutcome(retries, env) ==
    IF ~UpsertFails(env) THEN "success"
    ELSE IF RetriesScheduled(retries) > 0 THEN "retry" ELSE "failed"

\* Any pending unit may run next, so the order of the queue carries no
\* information; a unit sent again is filed by its retries.
Before(u, v) == u.retries <= v.retries

Requeue(q, u) ==
    LET n == Cardinality({j \in 1..Len(q) : Before(q[j], u)})
    IN [j \in 1..(Len(q) + 1) |->
          IF j <= n THEN q[j] ELSE IF j = n + 1 THEN u ELSE q[j - 1]]

write_to_0711(i, env) ==
    LET unit == q_ing_in[i]
        rest == RemoveAt(q_ing_in, i)
        again == [payload |-> unit.payload, retries |-> unit.retries + 1]
        k == IF UpsertFails(env) THEN RetriesScheduled(unit.retries) ELSE 0
    IN /\ q_ing_in' =
             IF k = 0 THEN rest
             ELSE IF k = 1 THEN Requeue(rest, again)
             ELSE Requeue(Requeue(rest, again), again)
       /\ ing_created' =
             IF UpsertFails(env) THEN ing_created
             ELSE ing_created + 1
       /\ ing_execs' = ing_execs + 1
       /\ ing_last' =
             <<[retries |-> unit.retries, env |-> env,
                result |-> IngOutcome(unit.retries, env),
                doc_id |-> IF UpsertFails(env) THEN "none" ELSE env.upsert,
                scheduled |-> k,
                upsert_called |-> UpsertCalled(env),
                graph_called |-> GraphCalled(unit.payload, env),
                reindex_called |-> ReindexCalled(env)]>>

WriteTo0711 ==
    /\ \E i \in 1..Len(q_ing_in), env \in IngEnvs : write_to_0711(i, env)
    /\ UNCHANGED <<dedup_vars, worker_vars, calls, intake_vars, und_vars, ed_vars,
                   corr_vars, chunk_vars, disc_vars, aux_vars>>

\* Payloads as summarize_and_qc forwards them, with and without entities.
IngestionInputs ==
    LET env == CHOOSE e \in EdEnvs :
                   e.sum = "ok" /\ e.claims = "error" /\ e.send = "ok"
        sent == { EdPayload(p, env) :
                    p \in {x \in EditorialInputs :
                             x.text.len = AbstractFallbackChars} }
    IN sent \cup { [p EXCEPT !.entities = <<>>, !.edges = <<>>] : p \in sent }

(***************************************************************************)
(* Chunker: libs/common/chunking.py chunk_by_headings                      *)
(*                                                                         *)
(* A string is a sequence of characters.  The input of the loop of lines   *)
(* 14-32 is the list of sections re.split returned at line 9; one action   *)
(* is one iteration of the loop, a last one is lines 34-38.                *)
(***************************************************************************)

\* sections in one input
MaxSections == 4

Whitespace == {" ", "\n"}

\* str.strip()
RECURSIVE LStrip(_)
LStrip(str) ==
    IF str # <<>> /\ Head(str) \in Whitespace THEN LStrip(Tail(str)) ELSE str

RECURSIVE RStrip(_)
RStrip(str) ==
    IF str # <<>> /\ str[Len(str)] \in Whitespace
    THEN RStrip(SubSeq(str, 1, Len(str) - 1)) ELSE str

Strip(str) == RStrip(LStrip(str))

TokensPerEightChars(str) == Len(str) \div 8

\* lines 20-21: len(...) // 4
Tokens(str) == Len(str) \div 4

\* line 30: "\n\n"
Separator == <<"\n", "\n">>

\* sections as re.split returns them: empty, blank, padded, and of 0, 1 and
\* 2 estimated tokens
ChunkSections ==
    { <<>>,
      <<" ", "\n">>,
      <<" ", "a", "b", "\n">>,
      <<"c", "d", "e", " ", "f", "g", "h">>,
      <<"i", "j", "k", "l", "\n", "\n", "m", "n", "o">> }

ChunkTargets == {0, 1, 2, 3}

ChunkInputs ==
    { [sections |-> ss, target_tokens |-> t] :
        ss \in UNION { [1..n -> ChunkSections] : n \in 0..MaxSections },
        t \in ChunkTargets }

FlushIgnoresEmptyBuffer(current, section, target) ==
    Tokens(current) + Tokens(section) > target

\* line 23
Flushes(current, section, target) ==
    Tokens(current) + Tokens(section) > target /\ current # <<>>

AppendedKeepsLatest(current, section) == section

\* lines 29-32
Appended(current, section) ==
    IF current # <<>> THEN current \o Separator \o section ELSE section

\* lines 14-32: one iteration of the loop
ChunkSection ==
    /\ ch_pos >= 1 /\ ch_pos <= Len(ch_in.sections)
    /\ LET section == Strip(ch_in.sections[ch_pos])
           flush == Flushes(ch_current, section, ch_in.target_tokens)
       IN IF section = <<>>
          THEN /\ UNCHANGED <<ch_current, ch_chunks, ch_cur_parts, ch_parts>>
               /\ ch_trace' = Append(ch_trace,
                      [sec |-> ch_pos, buf |-> ch_current, text |-> section,
                       act |-> "skip", after |-> ch_current, emitted |-> <<>>])
          ELSE /\ ch_chunks' =
                     IF flush THEN Append(ch_chunks, Strip(ch_current))
                     ELSE ch_chunks
               /\ ch_parts' =
                     IF flush THEN Append(ch_parts, ch_cur_parts) ELSE ch_parts
               /\ ch_current' =
                     IF flush THEN section ELSE Appended(ch_current, section)
               /\ ch_cur_parts' =
                     IF flush THEN <<ch_pos>> ELSE Append(ch_cur_parts, ch_pos)
               /\ ch_trace' = Append(ch_trace,
                      [sec |-> ch_pos, buf |-> ch_current, text |-> section,
                       act |-> IF flush THEN "flush" ELSE "append",
                       after |-> ch_current',
                       emitted |-> SubSeq(ch_chunks', Len(ch_chunks) + 1,
                                          Len(ch_chunks'))])
    /\ ch_pos' = ch_pos + 1
    /\ UNCHANGED <<ch_in, dedup_vars, worker_vars, calls, intake_vars, und_vars,
                   ed_vars, corr_vars, ing_vars, disc_vars, aux_vars>>

\* lines 34-38
ChunkFinish ==
    /\ ch_pos = Len(ch_in.sections) + 1
    /\ IF Strip(ch_current) # <<>>
       THEN /\ ch_chunks' = Append(ch_chunks, Strip(ch_current))
            /\ ch_parts' = Append(ch_parts, ch_cur_parts)
       ELSE UNCHANGED <<ch_chunks, ch_parts>>
    /\ ch_pos' = 0
    /\ UNCHANGED <<ch_in, ch_current, ch_cur_parts, ch_trace, dedup_vars,
                   worker_vars, calls, intake_vars, und_vars, ed_vars, corr_vars,
                   ing_vars, disc_vars, aux_vars>>

\* lines 14-38 as one function of the sections: the loop from section k on,
\* then the final chunk
RECURSIVE HeadingLoop(_, _, _, _, _)
HeadingLoop(sections, k, current_chunk, chunks, target_tokens) ==
    IF k > Len(sections)
    THEN IF Strip(current_chunk) # <<>>
         THEN Append(chunks, Strip(current_chunk)) ELSE chunks
    ELSE LET section == Strip(sections[k])
         IN IF section = <<>>
            THEN HeadingLoop(sections, k + 1, current_chunk, chunks, target_tokens)
            ELSE IF Flushes(current_chunk, section, target_tokens)
            THEN HeadingLoop(sections, k + 1, section,
                             Append(chunks, Strip(current_chunk)), target_tokens)
            ELSE HeadingLoop(sections, k + 1, Appended(current_chunk, section),
                             chunks, target_tokens)

\* A chunker that leaves out the first section unless told to keep headings.
HeadingsDroppedUnlessKept(sections, keep_headings, target_tokens) ==
    IF keep_headings \/ sections = <<>>
    THEN HeadingLoop(sections, 1, <<>>, <<>>, target_tokens)
    ELSE HeadingLoop(Tail(sections), 1, <<>>, <<>>, target_tokens)

\* lines 4-38: keep_headings is a parameter the body never reads; the body
\* uses its arguments and its locals only
chunk_by_headings(sections, keep_headings, target_tokens) ==
    HeadingLoop(sections, 1, <<>>, <<>>, target_tokens)

\* Three calls in a row: the first and the third with the same text and
\* target_tokens, another call in between.
MaxCallSections == 2
BetweenCalls ==
    { [sections |-> ss, keep_headings |-> k, target_tokens |-> t] :
        ss \in { <<>>, << <<"c", "d", "e", " ", "f", "g", "h">>, <<" ", "a", "b", "\n">> >> },
        k \in BOOLEAN, t \in {0, 3} }
CallTriples ==
    { << [sections |-> ss, keep_headings |-> k1, target_tokens |-> t], b,
         [sections |-> ss, keep_headings |-> k3, target_tokens |-> t] >> :
        ss \in UNION { [1..n -> ChunkSections] : n \in 0..MaxCallSections },
        t \in ChunkTargets, k1 \in BOOLEAN, k3 \in BOOLEAN, b \in BetweenCalls }

ChunkByHeadingsCall ==
    /\ call_in.fn = "chunk_by_headings"
    /\ ~call_out.done
    /\ LET a == call_in.calls[Len(call_out.results) + 1]
       IN call_out' =
             [done |-> Len(call_out.results) + 1 = Len(call_in.calls),
              results |-> Append(call_out.results,
                                 chunk_by_headings(a.sections, a.keep_headings,
                                                   a.target_tokens))]
    /\ UNCHANGED <<call_in, non_call_vars>>

IdleChunker ==
    /\ ch_in = [sections |-> <<>>, target_tokens |-> 0]
    /\ ch_pos = 0
    /\ ch_current = <<>>
    /\ ch_chunks = <<>>
    /\ ch_cur_parts = <<>>
    /\ ch_parts = <<>>
    /\ ch_trace = <<>>

(***************************************************************************)
(* Discovery: apps/worker-discovery/tasks.py                               *)
(*                                                                         *)
(* A template or query is a sequence of parts, the placeholder being the   *)
(* part "{topic}".  A discovery unit is [cfg, retries].  Environment of    *)
(* one execution of plan_and_search:                                       *)
(*   search: for each query, whether tavily_search returns, and its list   *)
(*   send:   "ok" | "error"            (celery.send_task)                  *)
(***************************************************************************)

\* tasks.py line 85: self.retry(countdown=60, max_retries=3)
DiscMaxRetries == 3

\* line 21
DefaultTopics == <<"technology", "science", "policy", "regulation", "guidelines">>

Placeholder == "{topic}"

\* line 25: "{topic}" in template
HasPlaceholder(template) == \E k \in DOMAIN template : template[k] = Placeholder

\* A replace that stops after the first occurrence of the placeholder.
ReplacedFirstOnly(template, topic) ==
    [k \in DOMAIN template |->
        IF template[k] = Placeholder /\ \A j \in 1..(k - 1) : template[j] # Placeholder
        THEN topic ELSE template[k]]

\* line 27: template.replace("{topic}", topic)
Replaced(template, topic) ==
    [k \in DOMAIN template |-> IF template[k] = Placeholder THEN topic ELSE template[k]]

\* lines 24-29: the queries of one template
TemplateQueries(template, topics) ==
    IF HasPlaceholder(template)
    THEN [k \in DOMAIN topics |-> Replaced(template, topics[k])]
    ELSE <<template>>

\* lines 18-31; topics = <<>> stands for both None and the empty list
RECURSIVE expand_queries(_, _)
expand_queries(query_templates, topics) ==
    LET used == IF topics = <<>> THEN DefaultTopics ELSE topics
    IN IF query_templates = <<>> THEN <<>>
       ELSE TemplateQueries(Head(query_templates), used)
            \o expand_queries(Tail(query_templates), used)

\* a configured topic: a string, or an object with optional title and id
TopicName(n) ==
    [obj |-> FALSE, name |-> n, has_title |-> FALSE, title |-> "",
     has_id |-> FALSE, id |-> ""]
TopicObject(ht, t, hi, i) ==
    [obj |-> TRUE, name |-> "", has_title |-> ht, title |-> t,
     has_id |-> hi, id |-> i]

\* line 45: t.get("title", t.get("id", ""))
TopicTitle(t) == IF t.has_title THEN t.title ELSE IF t.has_id THEN t.id ELSE ""

\* lines 41-47
TopicNames(cfg) ==
    IF cfg.topics # <<>> /\ cfg.topics[1].obj
    THEN [k \in DOMAIN cfg.topics |-> TopicTitle(cfg.topics[k])]
    ELSE [k \in DOMAIN cfg.topics |-> cfg.topics[k].name]

\* a search result: a dict with or without the key "url"
Hit(u) == [has |-> TRUE, url |-> u]
EmptyUrl == Url("", <<>>)
NoUrlHit == [has |-> FALSE, url |-> EmptyUrl]

\* line 69: if result.get("url")
HasUrl(result) == result.has /\ result.url # EmptyUrl

\* what tavily_search does for one query: it raises, or returns results
SearchError == [ok |-> FALSE, results |-> <<>>]
SearchReturns(results) == [ok |-> TRUE, results |-> results]

SearchOutcomes ==
    { SearchError,
      SearchReturns(<<Hit(Url(ArticleBase, <<>>))>>),
      SearchReturns(<<Hit(Url(ArticleBase, <<>>)), Hit(EmptyUrl), NoUrlHit,
                      Hit(Url(OtherBase, <<>>)), Hit(Url(ArticleBase, <<>>))>>) }

\* cfg as the orchestrator passes it; ok = FALSE is a configuration that is
\* not a mapping (an empty YAML file loads as None)
DiscConfig(ok, queries, topics) ==
    [ok |-> ok, queries |-> queries, topics |-> topics]

DiscConfigs ==
    { DiscConfig(FALSE, <<>>, <<>>),
      DiscConfig(TRUE, <<>>, <<>>),
      DiscConfig(TRUE, << <<"tax ", Placeholder>>, <<"news">> >>,
                 <<TopicName("vat"), TopicName("law")>>),
      DiscConfig(TRUE, << <<"news">>, <<Placeholder, " and ", Placeholder>> >>,
                 <<>>),
      DiscConfig(TRUE, << <<"tax ", Placeholder>> >>,
                 <<TopicObject(TRUE, "vat", TRUE, "t1"),
                   TopicObject(FALSE, "", TRUE, "t2")>>) }

\* lines 37-49
PlannedQueries(cfg) == expand_queries(cfg.queries, TopicNames(cfg))

DiscEnvs(cfg) ==
    [search : [DOMAIN PlannedQueries(cfg) -> SearchOutcomes], send : {"ok", "error"}]

SearchFailureEscapes(outcome) == ~outcome.ok

\* lines 55-78: an exception of tavily_search is caught per query
SearchFailureLeavesLoop(outcome) == FALSE

\* lines 56-78 for one query: the URLs sent to the intake queue.  A failing
\* send_task raises into the handler of line 76, which ends the query.
QuerySends(outcome, send) ==
    IF ~outcome.ok \/ send = "error" THEN <<>>
    ELSE LET hits == SelectSeq(outcome.results, HasUrl)
         IN [k \in DOMAIN hits |-> hits[k].url]

\* lines 54-78: the URLs sent over the queries from position k on
RECURSIVE LoopSends(_, _, _)
LoopSends(search, send, k) ==
    IF k > Len(search) THEN <<>>
    ELSE QuerySends(search[k], send) \o LoopSends(search, send, k + 1)

\* lines 54-78: the queries tavily_search was called for
Searched(search) ==
    LET stops == {k \in DOMAIN search : SearchFailureLeavesLoop(search[k])}
    IN {k \in DOMAIN search : \A j \in stops : k <= j}

\* lines 36-85: "success" (line 81) or "raise" (line 83)
DiscOutcome(cfg, env) ==
    IF ~cfg.ok THEN "raise"
    ELSE IF \E k \in DOMAIN env.search : SearchFailureLeavesLoop(env.search[k])
         THEN "raise"
    ELSE "success"

plan_and_search(i, env) ==
    LET unit == q_disc[i]
        out == DiscOutcome(unit.cfg, env)
        rest == RemoveAt(q_disc, i)
        searched == IF unit.cfg.ok THEN Searched(env.search) ELSE {}
        sent == IF unit.cfg.ok
                THEN LoopSends([k \in 1..Cardinality(searched) |-> env.search[k]],
                               env.send, 1)
                ELSE <<>>
        result == IF out # "raise" THEN out
                  ELSE IF CanRetry(unit.retries, DiscMaxRetries)
                       THEN "retry" ELSE "retries_exhausted"
    IN /\ q_intake' = q_intake \o [k \in DOMAIN sent |-> [url |-> sent[k], retries |-> 0]]
       /\ q_disc' =
             IF result = "retry"
             THEN Append(rest, [cfg |-> unit.cfg, retries |-> unit.retries + 1])
             ELSE rest
       /\ disc_last' =
             <<[cfg |-> unit.cfg, retries |-> unit.retries, env |-> env,
                result |-> result, searched |-> searched, sent |-> sent,
                retried |-> Len(q_disc') - Len(rest)]>>

PlanAndSearch ==
    /\ \E i \in 1..Len(q_disc) :
          \E env \in DiscEnvs(q_disc[i].cfg) : plan_and_search(i, env)
    /\ UNCHANGED <<q_understanding, intake_last, intake_sources, intake_dropped,
                   dedup_vars, worker_vars, calls, und_vars, ed_vars, corr_vars,
                   ing_vars, chunk_vars, aux_vars>>

(***************************************************************************)
(* Knowledge store client: libs/seven011_client/client.py                  *)
(*                                                                         *)
(* An entity is [name, type], an edge [source, target, relation].  The     *)
(* Cypher text is a sequence of MERGE clauses: a node clause               *)
(* [kind "node", a, label, name] for MERGE (n<a>:<label> {name: '<name>'}) *)
(* and a relation clause [kind "rel", a, b, label] for                     *)
(* MERGE (n<a>)-[:<label>]->(n<b>).  Environment of one call:              *)
(*   client: "ok" | "no_credentials"   (_get_client)                       *)
(*   query:  "ok" | "error"            (client.graph_query)                *)
(***************************************************************************)
\* the None of next(..., None)
NoIndex == 0 - 1

\* lines 134-135: index of the first entity with the name, from 0
EntityIndex(entities, name) ==
    IF \E i \in DOMAIN entities : entities[i].name = name
    THEN (CHOOSE i \in DOMAIN entities :
             /\ entities[i].name = name
             /\ \A j \in 1..(i - 1) : entities[j].name # name) - 1
    ELSE NoIndex

\* lines 125-129
NodeClauses(entities) ==
    [i \in DOMAIN entities |->
        [kind |-> "node", a |-> i - 1, b |-> NoIndex,
         label |-> entities[i].type, name |-> entities[i].name]]

EdgeResolvesOnSource(entities, edge) ==
    EntityIndex(entities, edge.source) # NoIndex

\* line 137
EdgeResolves(entities, edge) ==
    /\ EntityIndex(entities, edge.source) # NoIndex
    /\ EntityIndex(entities, edge.target) # NoIndex

\* lines 132-140
RECURSIVE EdgeClauses(_, _)
EdgeClauses(entities, edges) ==
    IF edges = <<>> THEN <<>>
    ELSE (IF EdgeResolves(entities, Head(edges))
          THEN <<[kind |-> "rel",
                  a |-> EntityIndex(entities, Head(edges).source),
                  b |-> EntityIndex(entities, Head(edges).target),
                  label |-> Head(edges).relation, name |-> ""]>>
          ELSE <<>>)
         \o EdgeClauses(entities, Tail(edges))

\* lines 114-144: whether the call raised, and the queries it issued
graph_upsert(entities, edges, env) ==
    LET cypher_parts == NodeClauses(entities) \o EdgeClauses(entities, edges)
    IN IF entities = <<>> /\ edges = <<>>
       THEN [done |-> TRUE, raised |-> FALSE, queries |-> <<>>]
       ELSE IF env.client # "ok"
       THEN [done |-> TRUE, raised |-> TRUE, queries |-> <<>>]
       ELSE IF cypher_parts = <<>>
       THEN [done |-> TRUE, raised |-> FALSE, queries |-> <<>>]
       ELSE [done |-> TRUE, raised |-> env.query # "ok",
             queries |-> <<cypher_parts>>]

MaxEntities == 2
MaxEdges == 2
GraphEntities == { [name |-> "A", type |-> "Statute"], [name |-> "B", type |-> "Case"] }
GraphEdges ==
    [source : {"A", "B", "C"}, target : {"A", "B", "C"}, relation : {"APPLIES"}]
GraphEnvs == [client : {"ok", "no_credentials"}, query : {"ok", "error"}]

GraphUpsert ==
    /\ call_in.fn = "graph_upsert"
    /\ ~call_out.done
    /\ call_out' = graph_upsert(call_in.entities, call_in.edges, call_in.env)
    /\ UNCHANGED <<call_in, non_call_vars>>

\* str(i) of a positive integer: its decimal digits
DigitChars == <<"0", "1", "2", "3", "4", "5", "6", "7", "8", "9">>
RECURSIVE Decimal(_)
Decimal(i) ==
    IF i < 10 THEN <<DigitChars[i + 1]>>
    ELSE Append(Decimal(i \div 10), DigitChars[(i % 10) + 1])

ChunkRecordsFromZero(payload) ==
    [i \in DOMAIN payload.chunks |->
        [id |-> <<"c">> \o Decimal(i - 1), text |-> payload.chunks[i], order |-> i - 1]]

\* lines 97-100: enumerate(payload.get("chunks", []), 1); a payload without
\* the key has chunks = <<>> and has_chunks = FALSE
ChunkRecords(payload) ==
    [i \in DOMAIN payload.chunks |->
        [id |-> <<"c">> \o Decimal(i), text |-> payload.chunks[i], order |-> i]]

MaxChunkCount == 10
ChunkTexts == {"a", "b"}
UpsertPayloads ==
    { [has_chunks |-> FALSE, chunks |-> <<>>] }
    \cup { [has_chunks |-> TRUE, chunks |-> c] :
             c \in UNION { [1..k -> ChunkTexts] : k \in 0..MaxChunkCount } }

\* lines 85-107: the document handed to client.create_document
UpsertDocument ==
    /\ call_in.fn = "upsert_document"
    /\ ~call_out.done
    /\ call_out' = [done |-> TRUE, chunks |-> ChunkRecords(call_in.payload)]
    /\ UNCHANGED <<call_in, non_call_vars>>

(***************************************************************************)
(* Sentence chunker: libs/common/chunking.py chunk_by_sentences            *)
(*                                                                         *)
(* The input is the list of stripped, non-empty sentences re.split gave    *)
(* (line 45), each the number of its characters; a chunk is the list of    *)
(* the positions of the sentences it is made of.                           *)
(***************************************************************************)
RECURSIVE SumChars(_, _)
SumChars(sentences, chunk) ==
    IF chunk = <<>> THEN 0
    ELSE sentences[Head(chunk)] + SumChars(sentences, Tail(chunk))

\* len(current_chunk): the sentences and one separator between neighbours
ChunkChars(sentences, chunk) ==
    IF chunk = <<>> THEN 0 ELSE SumChars(sentences, chunk) + (Len(chunk) - 1)

\* lines 62-69: line 63 sets the local overlap_tokens to 0, hiding the
\* parameter, and line 65 compares that variable with itself; k walks the
\* sentences of the chunk from the last one backwards
RECURSIVE OverlapSentences(_, _, _, _, _)
OverlapSentences(sentences, chunk, k, overlap_tokens, overlap_sentences) ==
    IF k = 0 THEN overlap_sentences
    ELSE IF overlap_tokens < overlap_tokens
         THEN OverlapSentences(sentences, chunk, k - 1,
                               overlap_tokens + (sentences[chunk[k]] \div 4),
                               <<chunk[k]>> \o overlap_sentences)
         ELSE overlap_sentences

\* lines 50-76 from sentence k on, then lines 78-81
RECURSIVE SentenceLoop(_, _, _, _, _)
SentenceLoop(sentences, k, current_chunk, chunks, target_tokens) ==
    IF k > Len(sentences)
    THEN IF current_chunk # <<>> THEN Append(chunks, current_chunk) ELSE chunks
    ELSE LET sentence_tokens == sentences[k] \div 4
             current_tokens == ChunkChars(sentences, current_chunk) \div 4
         IN IF current_tokens + sentence_tokens > target_tokens /\ current_chunk # <<>>
            THEN SentenceLoop(sentences, k + 1,
                     OverlapSentences(sentences, current_chunk, Len(current_chunk),
                                      0, <<>>) \o <<k>>,
                     Append(chunks, current_chunk), target_tokens)
            ELSE SentenceLoop(sentences, k + 1, Append(current_chunk, k), chunks,
                              target_tokens)

\* lines 40-81; the parameter overlap_tokens is never read
chunk_by_sentences(sentences, target_tokens, overlap_tokens) ==
    SentenceLoop(sentences, 1, <<>>, <<>>, target_tokens)

MaxSentences == 4
SentenceChars == {4, 8}
SentenceInputs ==
    [sentences : UNION { [1..k -> SentenceChars] : k \in 0..MaxSentences },
     target_tokens : {1, 2, 3}, overlap_tokens : {0, 1, 2}]

ChunkBySentences ==
    /\ call_in.fn = "chunk_by_sentences"
    /\ ~call_out.done
    /\ call_out' = [done |-> TRUE,
                    chunks |-> chunk_by_sentences(call_in.args.sentences,
                                                  call_in.args.target_tokens,
                                                  call_in.args.overlap_tokens)]
    /\ UNCHANGED <<call_in, non_call_vars>>

\* canonicalize_url called on URLs with up to MaxParams query parameters: one
\* to keep, denied ones, a utm_ key outside lines 77-80, one without '='
MaxParams == 3
QueryParams ==
    { Param("id", "1"), Param("utm_source", "x"), Param("utm_id", "7"),
      Param("gclid", "g"), [key |-> "flag", eq |-> FALSE, val |-> ""] }
CanonInputs ==
    { [base |-> ArticleBase, query |-> q, frag |-> f] :
        q \in UNION { [1..k -> QueryParams] : k \in 0..MaxParams },
        f \in {"", "top"} }

CanonicalizeUrl ==
    /\ call_in.fn = "canonicalize_url"
    /\ ~call_out.done
    /\ call_out' = [done |-> TRUE, value |-> canonicalize_url(call_in.url)]
    /\ UNCHANGED <<call_in, non_call_vars>>

\* expand_queries called on lists of templates and topics
MaxTemplates == 2
MaxTopics == 2
SeqsUpTo(S, n) == UNION { [1..k -> S] : k \in 0..n }
QueryTemplates ==
    { <<"tax", "news">>, <<Placeholder, "news">>, <<Placeholder, "vs", Placeholder>> }
QueryTopics == {"vat", "customs"}

ExpandQueries ==
    /\ call_in.fn = "expand_queries"
    /\ ~call_out.done
    /\ call_out' = [done |-> TRUE,
                    value |-> expand_queries(call_in.query_templates, call_in.topics)]
    /\ UNCHANGED <<call_in, non_call_vars>>

IdleDiscovery == q_disc = <<>> /\ disc_last = <<>>

IdleIngestion ==
    /\ q_ing_in = <<>>
    /\ ing_created = 0
    /\ ing_execs = 0
    /\ ing_last = <<>>

NoCall == [fn |-> "none"]
NoReturn == [done |-> FALSE]
IdleCall == call_in = NoCall /\ call_out = NoReturn
IdleAux == IdleCall /\ pipe_hist = <<>>

IdleLate == IdleIngestion /\ IdleChunker /\ IdleDiscovery /\ IdleAux

(***************************************************************************)
(* The pipeline: one discovery run and the units it gives rise to.  The    *)
(* queue of a stage is the list its producer sends to (q_understanding,    *)
(* q_editorial, q_ingestion) followed by the units its worker holds or has *)
(* sent again (q_und_in, q_ed_in, q_ing_in); the broker hands a sent       *)
(* message to the worker.  pipe_hist.events lists, per document URL, the   *)
(* stages in the order of their first execution for it; pipe_hist.last is  *)
(* the task of the latest step.                                            *)
(***************************************************************************)
PipeConfigs ==
    { DiscConfig(FALSE, <<>>, <<>>), DiscConfig(TRUE, << <<"news">> >>, <<>>) }

PipeSearchOutcomes ==
    { SearchError,
      SearchReturns(<<Hit(Url(ArticleBase, <<Param("utm_source", "x")>>)),
                      Hit(Url(OtherBase, <<>>))>>) }

PipeDiscEnvs(cfg) ==
    [search : [DOMAIN PlannedQueries(cfg) -> PipeSearchOutcomes], send : {"ok"}]

\* every page of the run holds the same text
PipeText == CHOOSE t \in Texts : t.id = "t_a"

PipeIntakeEnvs ==
    { Env("error", "html", "ok", PipeText, "ok"),
      Env("ok", "html", "ok", PipeText, "ok"),
      Env("ok", "html", "ok", PipeText, "error") }

PipeUndEnvs ==
    { e \in UndEnvs : e.cls = "ok" /\ e.ner = "ok" /\ e.chunk = "ok" /\ e.embed = "ok" }

PipeEdEnvs == { e \in EdEnvs : e.sum = "ok" /\ e.claims = "error" }

PipeIngEnvs ==
    { e \in IngEnvs : e.coll = "ok" /\ e.graph = "ok" /\ e.reindex = "ok"
                      /\ e.upsert \in {"error", "d1"} }

Recorded(stage, url) ==
    [events |-> IF \E k \in DOMAIN pipe_hist.events :
                      pipe_hist.events[k] = [stage |-> stage, url |-> url]
                THEN pipe_hist.events
                ELSE Append(pipe_hist.events, [stage |-> stage, url |-> url]),
     last |-> stage]

RunDiscovery ==
    /\ \E i \in 1..Len(q_disc) :
          \E env \in PipeDiscEnvs(q_disc[i].cfg) : plan_and_search(i, env)
    /\ pipe_hist' = [pipe_hist EXCEPT !.last = "discovery"]
    /\ UNCHANGED <<q_understanding, intake_last, intake_sources, intake_dropped,
                   dedup_vars, worker_vars, calls, und_vars, ed_vars, corr_vars,
                   ing_vars, chunk_vars, call_vars>>

RunIntake ==
    /\ \E i \in 1..Len(q_intake) :
          /\ \E env \in PipeIntakeEnvs : fetch_extract(i, env)
          /\ pipe_hist' = Recorded("intake", canonicalize_url(q_intake[i].url))
    /\ UNCHANGED <<worker_vars, calls, und_vars, ed_vars, corr_vars, ing_vars,
                   chunk_vars, disc_vars, call_vars>>

\* the broker hands the oldest message of queue "understanding" to the worker
DeliverUnderstanding ==
    /\ q_understanding # <<>>
    /\ q_und_in' = Append(q_und_in, [doc |-> Head(q_understanding), retries |-> 0])
    /\ q_understanding' = Tail(q_understanding)
    /\ pipe_hist' = [pipe_hist EXCEPT !.last = "broker"]
    /\ UNCHANGED <<q_intake, intake_last, intake_sources, intake_dropped,
                   q_editorial, und_last, dedup_vars, worker_vars, calls, ed_vars,
                   corr_vars, ing_vars, chunk_vars, disc_vars, call_vars>>

RunUnderstanding ==
    /\ \E i \in 1..Len(q_und_in) :
          /\ \E env \in PipeUndEnvs : classify_ner(i, env)
          /\ pipe_hist' = Recorded("understanding", q_und_in[i].doc.url)
    /\ UNCHANGED <<dedup_vars, worker_vars, calls, intake_vars, ed_vars, corr_vars,
                   ing_vars, chunk_vars, disc_vars, call_vars>>

\* the payload as the editorial worker receives it: the keys editorial adds
\* are not there yet
Received(p) ==
    [url |-> p.url, text |-> p.text, canonical_url |-> p.canonical_url,
     content_hash |-> p.content_hash, labels |-> p.labels,
     entities |-> p.entities, edges |-> p.edges, chunks |-> p.chunks,
     vectors |-> p.vectors, needs_review |-> p.needs_review,
     abstract |-> <<>>, abstract_citations |-> <<>>, editorial_claims |-> <<>>]

DeliverEditorial ==
    /\ q_editorial # <<>>
    /\ q_ed_in' = Append(q_ed_in, [payload |-> Received(Head(q_editorial)),
                                    retries |-> 0])
    /\ q_editorial' = Tail(q_editorial)
    /\ pipe_hist' = [pipe_hist EXCEPT !.last = "broker"]
    /\ UNCHANGED <<q_und_in, und_last, q_ingestion, ed_last, dedup_vars,
                   worker_vars, calls, intake_vars, corr_vars, ing_vars,
                   chunk_vars, disc_vars, call_vars>>

RunEditorial ==
    /\ \E i \in 1..Len(q_ed_in) :
          /\ \E env \in PipeEdEnvs : summarize_and_qc(i, env)
          /\ pipe_hist' = Recorded("editorial", q_ed_in[i].payload.url)
    /\ UNCHANGED <<dedup_vars, worker_vars, calls, intake_vars, und_vars, corr_vars,
                   ing_vars, chunk_vars, disc_vars, call_vars>>

DeliverIngestion ==
    /\ q_ingestion # <<>>
    /\ q_ing_in' = Requeue(q_ing_in, [payload |-> Head(q_ingestion), retries |-> 0])
    /\ q_ingestion' = Tail(q_ingestion)
    /\ pipe_hist' = [pipe_hist EXCEPT !.last = "broker"]
    /\ UNCHANGED <<q_ed_in, ed_last, ing_created, ing_execs, ing_last, dedup_vars,
                   worker_vars, calls, intake_vars, und_vars, corr_vars,
                   chunk_vars, disc_vars, call_vars>>

RunIngestion ==
    /\ \E i \in 1..Len(q_ing_in) :
          /\ \E env \in PipeIngEnvs : write_to_0711(i, env)
          /\ pipe_hist' = Recorded("ingestion", q_ing_in[i].payload.url)
    /\ UNCHANGED <<dedup_vars, worker_vars, calls, intake_vars, und_vars, ed_vars,
                   corr_vars, chunk_vars, disc_vars, call_vars>>

(***************************************************************************)
(* Specifications                                                          *)
(***************************************************************************)
IdleUnderstanding == q_und_in = <<>> /\ q_editorial = <<>> /\ und_last = <<>>
IdleEditorial == q_ed_in = <<>> /\ q_ingestion = <<>> /\ ed_last = <<>>
IdleCorroborate ==
    /\ corr_in = [claims |-> <<>>, required |-> 0, results |-> <<>>]
    /\ corr_out = NoVerdict

\* Two workers call is_duplicate concurrently on an empty store.
InitConcurrent ==
    /\ IdleLate
    /\ IdleDedup /\ IdleWorkers /\ IdleCalls /\ IdleIntake
    /\ IdleUnderstanding /\ IdleEditorial /\ IdleCorroborate

NextConcurrent == \E w \in Workers : WorkerStep(w)

SpecConcurrent == InitConcurrent /\ [][NextConcurrent]_vars

\* One caller uses the store sequentially.
InitDedup ==
    /\ IdleLate
    /\ IdleDedup /\ IdleWorkers /\ IdleCalls /\ IdleIntake
    /\ IdleUnderstanding /\ IdleEditorial /\ IdleCorroborate

NextDedup == IsDuplicateCall

SpecDedup == InitDedup /\ [][NextDedup]_vars

\* One intake worker processes a batch of units.
InitIntake ==
    /\ IdleLate
    /\ IdleDedup /\ IdleWorkers /\ IdleCalls
    /\ \E us \in UnitSeqs(MaxUnits) :
          q_intake = [k \in 1..Len(us) |-> [url |-> us[k], retries |-> 0]]
    /\ q_understanding = <<>>
    /\ intake_last = <<>>
    /\ intake_sources = <<>>
    /\ intake_dropped = <<>>
    /\ IdleUnderstanding /\ IdleEditorial /\ IdleCorroborate

NextIntake == FetchExtract

SpecIntake == InitIntake /\ [][NextIntake]_vars

\* One understanding worker processes a batch of units.
InitUnderstanding ==
    /\ IdleLate
    /\ IdleDedup /\ IdleWorkers /\ IdleCalls /\ IdleIntake
    /\ \E ds \in UNION { [1..k -> PipelineDocs] : k \in 0..MaxStageUnits } :
          q_und_in = [k \in 1..Len(ds) |-> [doc |-> ds[k], retries |-> 0]]
    /\ q_editorial = <<>>
    /\ und_last = <<>>
    /\ IdleEditorial /\ IdleCorroborate

NextUnderstanding == ClassifyNer

SpecUnderstanding == InitUnderstanding /\ [][NextUnderstanding]_vars

\* One editorial worker processes a batch of units.
InitEditorial ==
    /\ IdleLate
    /\ IdleDedup /\ IdleWorkers /\ IdleCalls /\ IdleIntake /\ IdleUnderstanding
    /\ \E ps \in UNION { [1..k -> EditorialInputs] : k \in 0..MaxStageUnits } :
          q_ed_in = [k \in 1..Len(ps) |-> [payload |-> ps[k], retries |-> 0]]
    /\ q_ingestion = <<>>
    /\ ed_last = <<>>
    /\ IdleCorroborate

NextEditorial == SummarizeAndQc

SpecEditorial == InitEditorial /\ [][NextEditorial]_vars

\* The editorial stage has placed one unit on the ingestion queue; the
\* ingestion workers run write_to_0711 on it and on the units its retries
\* give rise to.
InitIngestion ==
    /\ IdleChunker /\ IdleDiscovery /\ IdleAux
    /\ IdleDedup /\ IdleWorkers /\ IdleCalls /\ IdleIntake
    /\ IdleUnderstanding /\ IdleEditorial /\ IdleCorroborate
    /\ \E p \in IngestionInputs : q_ing_in = <<[payload |-> p, retries |-> 0]>>
    /\ ing_execs = 0
    /\ ing_created = 0
    /\ ing_last = <<>>

NextIngestion == WriteTo0711

SpecIngestion == InitIngestion /\ [][NextIngestion]_vars

\* chunk_by_headings called on a list of sections.
InitChunker ==
    /\ IdleIngestion /\ IdleDiscovery /\ IdleAux
    /\ IdleDedup /\ IdleWorkers /\ IdleCalls /\ IdleIntake
    /\ IdleUnderstanding /\ IdleEditorial /\ IdleCorroborate
    /\ ch_in \in ChunkInputs
    /\ ch_pos = 1
    /\ ch_current = <<>>
    /\ ch_chunks = <<>>
    /\ ch_cur_parts = <<>>
    /\ ch_parts = <<>>
    /\ ch_trace = <<>>

NextChunker == ChunkSection \/ ChunkFinish

SpecChunker == InitChunker /\ [][NextChunker]_vars

\* The orchestrator has placed one discovery unit on the queue.
InitDiscovery ==
    /\ IdleIngestion /\ IdleChunker /\ IdleAux
    /\ IdleDedup /\ IdleWorkers /\ IdleCalls /\ IdleIntake
    /\ IdleUnderstanding /\ IdleEditorial /\ IdleCorroborate
    /\ \E cfg \in DiscConfigs : q_disc = <<[cfg |-> cfg, retries |-> 0]>>
    /\ disc_last = <<>>

NextDiscovery == PlanAndSearch

SpecDiscovery == InitDiscovery /\ [][NextDiscovery]_vars

\* The orchestrator has placed one discovery unit on the queue and every
\* stage has a worker.
InitPipeline ==
    /\ IdleDedup /\ IdleWorkers /\ IdleCalls /\ IdleIntake
    /\ IdleUnderstanding /\ IdleEditorial /\ IdleCorroborate
    /\ IdleIngestion /\ IdleChunker /\ IdleCall
    /\ \E cfg \in PipeConfigs : q_disc = <<[cfg |-> cfg, retries |-> 0]>>
    /\ disc_last = <<>>
    /\ pipe_hist = [events |-> <<>>, last |-> "none"]

NextPipeline ==
    \/ RunDiscovery
    \/ RunIntake
    \/ DeliverUnderstanding
    \/ RunUnderstanding
    \/ DeliverEditorial
    \/ RunEditorial
    \/ DeliverIngestion
    \/ RunIngestion

SpecPipeline == InitPipeline /\ [][NextPipeline]_vars

\* Every worker and the broker keep taking what is on their queue.
FairPipeline ==
    /\ SpecPipeline
    /\ WF_vars(RunDiscovery)
    /\ WF_vars(RunIntake)
    /\ WF_vars(DeliverUnderstanding)
    /\ WF_vars(RunUnderstanding)
    /\ WF_vars(DeliverEditorial)
    /\ WF_vars(RunEditorial)
    /\ WF_vars(DeliverIngestion)
    /\ WF_vars(RunIngestion)

\* Ingestion workers ensuring the same collection at the same time
\* (write_to_0711 lines 29-44 over create_collection_if_missing). Each worker
\* lists the collections, sends a create request if the name is not listed,
\* and goes on to upsert_document. The store rejects a create request for a
\* name it already has, or accepts it: its code is not part of the repository.
MaxEnsuring == 3
EnsuringWorkers == 1..MaxEnsuring

\* A rejected create request that leaves the task through the outer handler.
AfterEnsureEscapes(raised) == IF raised THEN "retry" ELSE "upsert"

\* write_to_0711 lines 30-38: with or without an exception from
\* create_collection_if_missing the task goes on to upsert_document
AfterEnsure(raised) == "upsert"

\* client.py line 80: get_collections answers with the names the store has
\* now, or raises
ListCollections(w) ==
    /\ call_in.fn = "create_collection_if_missing"
    /\ call_out.pc[w] = "list"
    /\ \E ok \in BOOLEAN :
         call_out' =
           IF ok
           THEN [call_out EXCEPT
                   !.listed[w] = IF call_out.exists THEN "present" ELSE "absent",
                   !.pc[w] = IF call_out.exists THEN AfterEnsure(FALSE) ELSE "create"]
           ELSE [call_out EXCEPT !.listed[w] = "error", !.pc[w] = AfterEnsure(TRUE)]
    /\ UNCHANGED <<call_in, non_call_vars>>

\* client.py line 83: the create request; raise_for_status raises on a
\* rejected request
CreateCollection(w) ==
    /\ call_in.fn = "create_collection_if_missing"
    /\ call_out.pc[w] = "create"
    /\ \E rejected \in (IF call_out.exists THEN BOOLEAN ELSE {FALSE}) :
         call_out' = [call_out EXCEPT
                        !.sent[w] = TRUE,
                        !.rejected[w] = rejected,
                        !.exists = TRUE,
                        !.pc[w] = AfterEnsure(rejected)]
    /\ UNCHANGED <<call_in, non_call_vars>>

\* write_to_0711 lines 38-44: the call of upsert_document
UpsertAfterEnsure(w) ==
    /\ call_in.fn = "create_collection_if_missing"
    /\ call_out.pc[w] = "upsert"
    /\ LET out == [call_out EXCEPT !.upserted[w] = TRUE, !.pc[w] = "done"]
       IN call_out' = [out EXCEPT !.done = \A v \in EnsuringWorkers : out.pc[v] = "done"]
    /\ UNCHANGED <<call_in, non_call_vars>>

InitEnsuring ==
    /\ IdleIngestion /\ IdleChunker /\ IdleDiscovery
    /\ IdleDedup /\ IdleWorkers /\ IdleCalls /\ IdleIntake
    /\ IdleUnderstanding /\ IdleEditorial /\ IdleCorroborate
    /\ call_in = [fn |-> "create_collection_if_missing"]
    /\ \E e \in BOOLEAN :
         call_out = [done |-> FALSE, exists |-> e,
                     pc |-> [w \in EnsuringWorkers |-> "list"],
                     listed |-> [w \in EnsuringWorkers |-> "unread"],
                     sent |-> [w \in EnsuringWorkers |-> FALSE],
                     rejected |-> [w \in EnsuringWorkers |-> FALSE],
                     upserted |-> [w \in EnsuringWorkers |-> FALSE]]
    /\ pipe_hist = <<>>

NextEnsuring ==
    \E w \in EnsuringWorkers :
        \/ ListCollections(w)
        \/ CreateCollection(w)
        \/ UpsertAfterEnsure(w)

SpecEnsuring == InitEnsuring /\ [][NextEnsuring]_vars

\* the scheduler runs every worker that can take a step
FairEnsuring ==
    /\ SpecEnsuring
    /\ \A w \in EnsuringWorkers :
         /\ WF_vars(ListCollections(w))
         /\ WF_vars(CreateCollection(w))
         /\ WF_vars(UpsertAfterEnsure(w))

\* Start of the processes and the first units they run, under every
\* combination of present and missing configuration: the knowledge-store URL
\* and key, the search key, the LLM key and the vertical configuration file.
StartupEnvs == [store : BOOLEAN, search : BOOLEAN, llm : BOOLEAN, vertical : BOOLEAN]
Processes == {"orchestrator", "discovery", "understanding", "ingestion"}

\* the module-level code of a process: each tasks.py and main.py reads
\* REDIS_URL with a default and nothing else; no credential is looked at
StartupChecks(p, env) == {}

\* main.py lines 36-41: a vertical configuration that cannot be loaded is
\* replaced by the generic one after a warning
LoadedConfig(env) == IF env.vertical THEN "vertical" ELSE "generic"

StartProcess(p) ==
    /\ call_in.fn = "startup"
    /\ p \notin call_out.started
    /\ call_out' = [call_out EXCEPT
                      !.started = @ \cup {p},
                      !.startup_errors = @ \cup StartupChecks(p, call_in.env),
                      !.cfg = IF p = "orchestrator" THEN LoadedConfig(call_in.env) ELSE @]
    /\ UNCHANGED <<call_in, non_call_vars>>

\* plan_and_search lines 54-75 over tavily_client _get_client (lines 57-64):
\* the key is read at the first search; without it the ValueError is caught
\* by the handler of the query loop and the query gives no result
FirstDiscoveryUnit ==
    /\ call_in.fn = "startup"
    /\ {"orchestrator", "discovery"} \subseteq call_out.started
    /\ call_out.startup_errors = {}
    /\ "discovery" \notin call_out.processed
    /\ call_out' = [call_out EXCEPT
                      !.processed = @ \cup {"discovery"},
                      !.unit_failures = IF call_in.env.search THEN @ ELSE @ \cup {"search"}]
    /\ UNCHANGED <<call_in, non_call_vars>>

\* analyze_document over llm provider _get_provider (lines 96-100) and
\* get_llm_provider (lines 74-91): the key is read at the first LLM call;
\* without it the ValueError is caught by the handler of the sub-step
FirstUnderstandingUnit ==
    /\ call_in.fn = "startup"
    /\ "understanding" \in call_out.started
    /\ call_out.startup_errors = {}
    /\ "understanding" \notin call_out.processed
    /\ call_out' = [call_out EXCEPT
                      !.processed = @ \cup {"understanding"},
                      !.unit_failures = IF call_in.env.llm THEN @ ELSE @ \cup {"llm"}]
    /\ UNCHANGED <<call_in, non_call_vars>>

\* write_to_0711 lines 30-44 over seven011_client _get_client (lines 67-75):
\* URL and key are read at the first call of the client; without them
\* create_collection_if_missing raises (absorbed) and upsert_document raises,
\* which retries the unit until max_retries
FirstIngestionUnit ==
    /\ call_in.fn = "startup"
    /\ "ingestion" \in call_out.started
    /\ call_out.startup_errors = {}
    /\ "ingestion" \notin call_out.processed
    /\ call_out' =
         IF call_in.env.store
         THEN [call_out EXCEPT !.processed = @ \cup {"ingestion"}]
         ELSE IF call_out.retries < IngUpsertMaxRetries
         THEN [call_out EXCEPT !.unit_failures = @ \cup {"store"},
                               !.retries = @ + 1]
         ELSE [call_out EXCEPT !.unit_failures = @ \cup {"store"},
                               !.processed = @ \cup {"ingestion"}]
    /\ UNCHANGED <<call_in, non_call_vars>>

InitStartup ==
    /\ IdleIngestion /\ IdleChunker /\ IdleDiscovery
    /\ IdleDedup /\ IdleWorkers /\ IdleCalls /\ IdleIntake
    /\ IdleUnderstanding /\ IdleEditorial /\ IdleCorroborate
    /\ \E env \in StartupEnvs : call_in = [fn |-> "startup", env |-> env]
    /\ call_out = [done |-> FALSE, started |-> {}, startup_errors |-> {},
                   cfg |-> "none", processed |-> {}, unit_failures |-> {},
                   retries |-> 0]
    /\ pipe_hist = <<>>

NextStartup ==
    \/ \E p \in Processes : StartProcess(p)
    \/ FirstDiscoveryUnit
    \/ FirstUnderstandingUnit
    \/ FirstIngestionUnit

SpecStartup == InitStartup /\ [][NextStartup]_vars

\* chunk_by_headings called three times in a row.
InitHeadingCalls ==
    /\ IdleIngestion /\ IdleChunker /\ IdleDiscovery
    /\ IdleDedup /\ IdleWorkers /\ IdleCalls /\ IdleIntake
    /\ IdleUnderstanding /\ IdleEditorial /\ IdleCorroborate
    /\ \E cs \in CallTriples : call_in = [fn |-> "chunk_by_headings", calls |-> cs]
    /\ call_out = [done |-> FALSE, results |-> <<>>]
    /\ pipe_hist = <<>>

NextHeadingCalls == ChunkByHeadingsCall

SpecHeadingCalls == InitHeadingCalls /\ [][NextHeadingCalls]_vars

\* chunk_by_sentences called once.
InitSentences ==
    /\ IdleIngestion /\ IdleChunker /\ IdleDiscovery
    /\ IdleDedup /\ IdleWorkers /\ IdleCalls /\ IdleIntake
    /\ IdleUnderstanding /\ IdleEditorial /\ IdleCorroborate
    /\ \E a \in SentenceInputs : call_in = [fn |-> "chunk_by_sentences", args |-> a]
    /\ call_out = NoReturn
    /\ pipe_hist = <<>>

NextSentences == ChunkBySentences

SpecSentences == InitSentences /\ [][NextSentences]_vars

\* graph_upsert called once.
InitGraph ==
    /\ IdleIngestion /\ IdleChunker /\ IdleDiscovery
    /\ IdleDedup /\ IdleWorkers /\ IdleCalls /\ IdleIntake
    /\ IdleUnderstanding /\ IdleEditorial /\ IdleCorroborate
    /\ \E es \in SeqsUpTo(GraphEntities, MaxEntities),
          ds \in SeqsUpTo(GraphEdges, MaxEdges), env \in GraphEnvs :
          call_in = [fn |-> "graph_upsert", entities |-> es, edges |-> ds, env |-> env]
    /\ call_out = NoReturn
    /\ pipe_hist = <<>>

NextGraph == GraphUpsert

SpecGraph == InitGraph /\ [][NextGraph]_vars

\* upsert_document called once.
InitUpsert ==
    /\ IdleIngestion /\ IdleChunker /\ IdleDiscovery
    /\ IdleDedup /\ IdleWorkers /\ IdleCalls /\ IdleIntake
    /\ IdleUnderstanding /\ IdleEditorial /\ IdleCorroborate
    /\ \E p \in UpsertPayloads : call_in = [fn |-> "upsert_document", payload |-> p]
    /\ call_out = NoReturn
    /\ pipe_hist = <<>>

NextUpsert == UpsertDocument

SpecUpsert == InitUpsert /\ [][NextUpsert]_vars

\* canonicalize_url called once.
InitCanonicalize ==
    /\ IdleIngestion /\ IdleChunker /\ IdleDiscovery
    /\ IdleDedup /\ IdleWorkers /\ IdleCalls /\ IdleIntake
    /\ IdleUnderstanding /\ IdleEditorial /\ IdleCorroborate
    /\ \E u \in CanonInputs : call_in = [fn |-> "canonicalize_url", url |-> u]
    /\ call_out = NoReturn
    /\ pipe_hist = <<>>

NextCanonicalize == CanonicalizeUrl

SpecCanonicalize == InitCanonicalize /\ [][NextCanonicalize]_vars

\* expand_queries called once.
InitExpand ==
    /\ IdleIngestion /\ IdleChunker /\ IdleDiscovery
    /\ IdleDedup /\ IdleWorkers /\ IdleCalls /\ IdleIntake
    /\ IdleUnderstanding /\ IdleEditorial /\ IdleCorroborate
    /\ \E ts \in SeqsUpTo(QueryTemplates, MaxTemplates),
          us \in SeqsUpTo(QueryTopics, MaxTopics) :
          call_in = [fn |-> "expand_queries", query_templates |-> ts, topics |-> us]
    /\ call_out = NoReturn
    /\ pipe_hist = <<>>

NextExpand == ExpandQueries

SpecExpand == InitExpand /\ [][NextExpand]_vars

\* corroborate_claims on claim lists with detailed search results.
InitCorroborate ==
    /\ IdleLate
    /\ IdleDedup /\ IdleWorkers /\ IdleCalls /\ IdleIntake
    /\ IdleUnderstanding /\ IdleEditorial
    /\ \E cl \in CorrClaimLists, rq \in CorrRequired :
          \E rs \in [1..Len(cl) -> ResultLists] :
              corr_in = [claims |-> cl, required |-> rq, results |-> rs]
    /\ corr_out = NoVerdict

NextCorroborate == Corroborate

SpecCorroborate == InitCorroborate /\ [][NextCorroborate]_vars

\* corroborate_claims(claims, required=2) on up to MaxTotal claims, each
\* with two matching results or with one.
InitThreshold ==
    /\ IdleLate
    /\ IdleDedup /\ IdleWorkers /\ IdleCalls /\ IdleIntake
    /\ IdleUnderstanding /\ IdleEditorial
    /\ \E n \in 0..MaxTotal :
          \E V \in SUBSET (1..n) :
              corr_in =
                 [claims |-> ExtractedClaims(n),
                  required |-> RequiredCitations,
                  results |->
                     [i \in 1..n |->
                        IF i \in V
                        THEN <<HitFor(ClaimText(i), 1), HitFor(ClaimText(i), 2)>>
                        ELSE <<HitFor(ClaimText(i), 1)>>]]
    /\ corr_out = NoVerdict

NextThreshold == Corroborate

SpecThreshold == InitThreshold /\ [][NextThreshold]_vars

(***************************************************************************)
(* Properties                                                              *)
(***************************************************************************)
Front(q) == SubSeq(q, 1, Len(q) - 1)
Last(q) == q[Len(q)]

\* C1: when two workers call is_duplicate concurrently with the same
\* canonical URL, or the same content hash, on a store that has not
\* recorded it, at most one of the two calls returns False.
\* (SpecConcurrent; the code violates it: both workers can pass the
\* membership tests before either adds.)
C1_AtMostOneNotDuplicate ==
    \A a \in Workers, b \in Workers :
        (a # b /\ w_ret[a] = "False" /\ w_ret[b] = "False")
        => /\ w_doc[a].url # w_doc[b].url
           /\ ~(Truthy(w_doc[a].hash) /\ w_doc[a].hash = w_doc[b].hash)

\* Two consecutive calls that share one key and differ in the other.
SharesOneKey(c, d) ==
    \/ (c.hash = d.hash /\ Truthy(c.hash) /\ c.url # d.url)
    \/ (c.url = d.url /\ c.hash # d.hash)

\* C2 as stated: of two documents submitted one after the other with equal
\* content hashes and different canonical URLs, or equal canonical URLs and
\* different content hashes, the second is flagged duplicate, whatever the
\* first call returned.
C2_SecondFlagged ==
    \A i \in 1..(Len(calls) - 1) :
        SharesOneKey(calls[i], calls[i + 1]) => calls[i + 1].ret = TRUE

\* C2 amended: the second is flagged duplicate whenever the call for the
\* first returned False, that is, whenever the first was recorded.
C2_SecondFlaggedAfterRecorded ==
    \A i \in 1..(Len(calls) - 1) :
        (SharesOneKey(calls[i], calls[i + 1]) /\ calls[i].ret = FALSE)
        => calls[i + 1].ret = TRUE

C2_Witness ==
    \E i \in 1..(Len(calls) - 1) :
        /\ calls[i].ret = FALSE
        /\ Truthy(calls[i].hash)
        /\ calls[i + 1].hash = calls[i].hash
        /\ calls[i + 1].url # calls[i].url
        /\ calls[i + 1].ret = TRUE

\* C3: a call with (u, h) on a store that records neither u nor h returns
\* False, and every later call with the same (u, h), the next one included,
\* returns True.
C3_FalseThenTrue ==
    \A i \in 1..Len(calls) :
        (calls[i].url \notin calls[i].pre_urls
         /\ calls[i].hash \notin calls[i].pre_hashes)
        => /\ calls[i].ret = FALSE
           /\ \A j \in (i + 1)..Len(calls) :
                 (calls[j].url = calls[i].url /\ calls[j].hash = calls[i].hash)
                 => calls[j].ret = TRUE

C3_Witness ==
    \E i \in 1..(Len(calls) - 2) :
        /\ calls[i].url \notin calls[i].pre_urls
        /\ calls[i].hash \notin calls[i].pre_hashes
        /\ calls[i + 1].url = calls[i].url /\ calls[i + 1].hash = calls[i].hash
        /\ calls[i + 2].url = calls[i].url /\ calls[i + 2].hash = calls[i].hash
        /\ calls[i].ret = FALSE /\ calls[i + 1].ret = TRUE /\ calls[i + 2].ret = TRUE

\* Two URLs differ only in tracking query parameters: dropping the
\* parameters whose key is on the tracking list makes them equal.
NotTracking(p) == p.key \notin tracking_params

DifferOnlyInTracking(a, b) ==
    /\ a.base = b.base
    /\ a.frag = b.frag
    /\ SelectSeq(a.query, NotTracking) = SelectSeq(b.query, NotTracking)

\* URLs of the units whose doc was forwarded before the latest execution.
EarlierSources ==
    IF intake_last # <<>> /\ intake_last[1].forwarded
    THEN Front(intake_sources) ELSE intake_sources

C5_TransientFetchRetried ==
    (intake_last # <<>> /\ intake_last[1].env.fetch = "error")
    => intake_last[1].result \in {"retry", "retries_exhausted"}

\* C6: whatever combination of the four sub-steps fails, an execution of
\* classify_ner (whose enqueue call goes through) emits exactly one
\* editorial unit and schedules no retry.
C6_OneEditorialUnit ==
    (und_last # <<>> /\ und_last[1].env.send = "ok")
    => /\ und_last[1].emitted = 1
       /\ und_last[1].retried = 0
       /\ und_last[1].result = "success"

C6_Witness ==
    /\ und_last # <<>>
    /\ und_last[1].env.cls = "error"
    /\ und_last[1].env.ner = "error"
    /\ und_last[1].env.chunk = "error"
    /\ und_last[1].env.embed = "client_error"
    /\ und_last[1].emitted = 1
    /\ und_last[1].retried = 0

\* C7: whatever combination of summarization, claim extraction and
\* corroboration fails, an execution of summarize_and_qc (whose enqueue call
\* goes through) emits exactly one ingestion unit, which carries the
\* abstract, the citation list and the claim list, the citations being
\* citations of claims of that list.
C7_OneIngestionUnit ==
    (ed_last # <<>> /\ ed_last[1].env.send = "ok")
    => /\ ed_last[1].emitted = 1
       /\ ed_last[1].retried = 0
       /\ Len(Last(q_ingestion).abstract) = 1
       /\ Len(Last(q_ingestion).abstract_citations) = 1
       /\ Len(Last(q_ingestion).editorial_claims) = 1
       /\ \A k \in 1..Len(Last(q_ingestion).abstract_citations[1]) :
             \E j \in 1..Len(Last(q_ingestion).editorial_claims[1]) :
                 Last(q_ingestion).abstract_citations[1][k].claim
                    = Last(q_ingestion).editorial_claims[1][j]

C7_Witness ==
    /\ ed_last # <<>>
    /\ ed_last[1].retries = 0
    /\ ed_last[1].env.sum = "error"
    /\ ed_last[1].env.claims = "ok"
    /\ ed_last[1].env.n > 0
    /\ ed_last[1].env.corr = "raise"
    /\ ed_last[1].emitted = 1
    /\ Len(Last(q_ingestion).editorial_claims) = 1

\* The first n characters of a text of the model (text[:n]).
FirstChars(text, n) == IF text.len > n THEN n ELSE text.len

\* C11 as stated: for every document whose summarizer call fails, the
\* abstract on the payload is the first 500 characters of the source text
\* followed by an ellipsis marker, and the document reaches the ingestion
\* queue.
C11_FallbackAbstractWithEllipsis ==
    (ed_last # <<>> /\ ed_last[1].env.sum = "error" /\ ed_last[1].env.send = "ok")
    => /\ ed_last[1].emitted = 1
       /\ Last(q_ingestion).abstract =
             << [kind |-> "text",
                 chars |-> FirstChars(ed_last[1].text, AbstractFallbackChars),
                 ellipsis |-> TRUE] >>

\* C11 amended: when the summarizer call fails, a source text longer than
\* 500 characters gives an abstract of its first 500 characters followed by
\* the ellipsis marker, a source text of at most 500 characters gives the
\* whole text with no marker, and in both cases the document reaches the
\* ingestion queue.
C11_FallbackAbstract ==
    (ed_last # <<>> /\ ed_last[1].env.sum = "error" /\ ed_last[1].env.send = "ok")
    => /\ ed_last[1].emitted = 1
       /\ Last(q_ingestion).text = ed_last[1].text
       /\ Last(q_ingestion).abstract =
             << [kind |-> "text",
                 chars |-> FirstChars(ed_last[1].text, AbstractFallbackChars),
                 ellipsis |-> ed_last[1].text.len > AbstractFallbackChars] >>

C11_Witness ==
    /\ ed_last # <<>>
    /\ ed_last[1].env.sum = "error"
    /\ ed_last[1].env.send = "ok"
    /\ ed_last[1].text.len = AbstractFallbackChars + 1
    /\ ed_last[1].emitted = 1
    /\ Last(q_ingestion).abstract =
          << [kind |-> "text", chars |-> AbstractFallbackChars, ellipsis |-> TRUE] >>

\* C8: when at least one claim was extracted and the corroboration run
\* fails (the verdict is not accepted, or the call raises), the payload
\* forwarded to ingestion has needs_review = true.
\* (SpecEditorial; the code violates it when the call raises.)
C8_FailedCorroborationFlagged ==
    (/\ ed_last # <<>>
     /\ ed_last[1].env.send = "ok"
     /\ ed_last[1].env.claims = "ok" /\ ed_last[1].env.n > 0
     /\ (ed_last[1].env.corr = "raise" \/ ~ed_last[1].env.verdict.success))
    => /\ ed_last[1].emitted = 1
       /\ Last(q_ingestion).needs_review = "True"

\* C9: corroborate_claims accepts exactly when 5 * verified >= 4 * total,
\* for every total from 1 up and every verified count.
C9_AcceptedIffFourFifths ==
    (corr_out.done /\ Len(corr_in.claims) >= 1)
    => (corr_out.success <=> 5 * corr_out.verified >= 4 * Len(corr_in.claims))

C9_Witness ==
    /\ corr_out.done
    /\ Len(corr_in.claims) = 5
    /\ corr_out.verified = 4
    /\ corr_out.success

\* The result holds the claim text, whatever the case of the letters.
HoldsIgnoringCase(claim, result) ==
    /\ result.has
    /\ \E off \in 0..(Len(result.text) - Len(claim)) :
          \A k \in 1..Len(claim) : Lower(result.text[off + k]) = Lower(claim[k])

\* Positions of the results of claim i that hold it.
HitPositions(i) ==
    {k \in 1..Len(corr_in.results[i]) :
        HoldsIgnoringCase(corr_in.claims[i], corr_in.results[i][k])}

\* The j-th smallest element of a set of numbers.
NthOf(S, j) == CHOOSE k \in S : Cardinality({m \in S : m < k}) = j - 1

\* The citations claim i is due: for a claim with at least `required` hits,
\* its first `required` hits in search order.
DueCitations(i) ==
    IF Cardinality(HitPositions(i)) >= corr_in.required
    THEN [j \in 1..corr_in.required |->
             [claim |-> corr_in.claims[i],
              url |-> corr_in.results[i][NthOf(HitPositions(i), j)].url]]
    ELSE <<>>

RECURSIVE DueUpTo(_)
DueUpTo(i) == IF i = 0 THEN <<>> ELSE DueUpTo(i - 1) \o DueCitations(i)

\* C10: a claim counts as verified exactly when at least `required` of its
\* search results hold the claim text case-insensitively; the citation list
\* is, claim by claim, the first `required` such results of each verified
\* claim and nothing for the others; every citation names an input claim.
C10_CitationsOfVerifiedClaims ==
    corr_out.done
    => /\ corr_out.verified =
             Cardinality({i \in 1..Len(corr_in.claims) :
                 Cardinality(HitPositions(i)) >= corr_in.required})
       /\ corr_out.citations = DueUpTo(Len(corr_in.claims))
       /\ \A k \in 1..Len(corr_out.citations) :
             \E i \in 1..Len(corr_in.claims) :
                 corr_out.citations[k].claim = corr_in.claims[i]

C10_Witness ==
    /\ corr_out.done
    /\ corr_in.required >= 1
    /\ \E i \in 1..Len(corr_in.claims), j \in 1..Len(corr_in.claims) :
          /\ Cardinality(HitPositions(i)) > corr_in.required
          /\ Cardinality(HitPositions(j)) < corr_in.required
    /\ Len(corr_out.citations) = corr_in.required

\* C12 as stated: each failed document upsert schedules exactly one retry
\* unit (none once the retry budget of 3 is used up), and the executions an
\* ingestion unit gives rise to number at most the initial one plus 3
\* retries.
C12_OneRetryPerFailedUpsert ==
    /\ (ing_last # <<>> /\ ing_last[1].env.upsert = "error")
       => ing_last[1].scheduled =
             (IF ing_last[1].retries < IngMaxRetries THEN 1 ELSE 0)
    /\ ing_execs <= 1 + IngMaxRetries

\* C13: once the document upsert has succeeded, write_to_0711 completes with
\* success and the document id the upsert returned and schedules no retry,
\* whatever the graph upsert and the reindexing do; reindexing is attempted
\* also after a failed graph upsert, and the upsert is attempted also after
\* a failure to ensure the collection.
C13_BestEffortAfterUpsert ==
    ing_last # <<>>
    => /\ ing_last[1].upsert_called
       /\ ing_last[1].env.upsert # "error"
          => /\ ing_last[1].result = "success"
             /\ ing_last[1].doc_id = ing_last[1].env.upsert
             /\ ing_last[1].scheduled = 0
             /\ ing_last[1].reindex_called
             /\ ing_created >= 1

C13_Witness ==
    /\ ing_last # <<>>
    /\ ing_last[1].env.coll = "error"
    /\ ing_last[1].env.upsert = "d2"
    /\ ing_last[1].env.graph = "error"
    /\ ing_last[1].env.reindex = "error"
    /\ ing_last[1].graph_called
    /\ ing_last[1].reindex_called
    /\ ing_last[1].result = "success"
    /\ ing_last[1].doc_id = "d2"

\* The strings joined by the separator the chunker inserts.
RECURSIVE Joined(_)
Joined(strs) ==
    IF strs = <<>> THEN <<>>
    ELSE IF Len(strs) = 1 THEN strs[1]
    ELSE strs[1] \o Separator \o Joined(Tail(strs))

RECURSIVE Flat(_)
Flat(seqs) == IF seqs = <<>> THEN <<>> ELSE Head(seqs) \o Flat(Tail(seqs))

Trimmed(k) == Strip(ch_in.sections[k])

\* Indices of the sections that are non-empty after trimming, in order.
RECURSIVE KeptUpTo(_)
KeptUpTo(n) ==
    IF n = 0 THEN <<>>
    ELSE IF Trimmed(n) # <<>> THEN Append(KeptUpTo(n - 1), n) ELSE KeptUpTo(n - 1)

Returned == ch_pos = 0 /\ Len(ch_trace) = Len(ch_in.sections)

\* C14: every section that is non-empty after trimming is in exactly one
\* returned chunk and the sections keep their order: the sections held by
\* the chunks, read chunk after chunk, are the non-empty sections of the
\* input in input order, each chunk is its sections joined by the separator,
\* and so the joined chunks are the joined non-empty sections.
C14_SectionsOnceInOrder ==
    Returned
    => /\ Flat(ch_parts) = KeptUpTo(Len(ch_in.sections))
       /\ Len(ch_parts) = Len(ch_chunks)
       /\ \A c \in DOMAIN ch_chunks :
             ch_chunks[c] =
                Joined([j \in DOMAIN ch_parts[c] |-> Trimmed(ch_parts[c][j])])
       /\ Joined(ch_chunks) =
             Joined([j \in DOMAIN KeptUpTo(Len(ch_in.sections)) |->
                       Trimmed(KeptUpTo(Len(ch_in.sections))[j])])

C14_Witness ==
    /\ Returned
    /\ Len(ch_chunks) >= 2
    /\ Len(ch_parts[1]) >= 2
    /\ Len(KeptUpTo(Len(ch_in.sections))) < Len(ch_in.sections)

\* C15: a non-empty section flushes the buffer as a chunk exactly when the
\* buffer is non-empty and the token estimates (length divided by 4, rounded
\* down) of buffer and section add up to more than target_tokens, and then
\* the section starts the new buffer; otherwise it is appended to the
\* buffer; a section arriving at an empty buffer is never flushed; the final
\* non-empty buffer is flushed, and no returned chunk is empty.
C15_FlushExactlyWhenOverTarget ==
    /\ \A k \in DOMAIN ch_trace :
          LET e == ch_trace[k]
              over == (Len(e.buf) \div 4) + (Len(e.text) \div 4)
                         > ch_in.target_tokens
          IN e.text # <<>>
             => /\ (e.buf # <<>> /\ over)
                   => /\ e.act = "flush"
                      /\ e.emitted = <<e.buf>>
                      /\ e.after = e.text
                /\ ~(e.buf # <<>> /\ over)
                   => /\ e.act = "append"
                      /\ e.emitted = <<>>
                      /\ e.after = IF e.buf = <<>> THEN e.text
                                   ELSE e.buf \o <<"\n", "\n">> \o e.text
    /\ Returned
       => /\ ch_current # <<>> => Last(ch_chunks) = ch_current
          /\ Len(ch_chunks) =
                Cardinality({k \in DOMAIN ch_trace : ch_trace[k].act = "flush"})
                + (IF ch_current # <<>> THEN 1 ELSE 0)
    /\ \A c \in DOMAIN ch_chunks : ch_chunks[c] # <<>>

C15_Witness ==
    /\ Returned
    /\ \E k \in DOMAIN ch_trace : ch_trace[k].act = "flush"
    /\ \E k \in DOMAIN ch_trace :
          ch_trace[k].act = "append" /\ ch_trace[k].buf # <<>>
    /\ \E k \in DOMAIN ch_trace :
          /\ ch_trace[k].buf = <<>>
          /\ Len(ch_trace[k].text) \div 4 > ch_in.target_tokens

\* The length of the longest trimmed section of the input.
LongestSection ==
    LET lens == {Len(Trimmed(k)) : k \in DOMAIN ch_in.sections} \cup {0}
    IN CHOOSE m \in lens : \A x \in lens : x <= m

\* C16 as stated: at most one returned chunk exceeds target_tokens * 4
\* characters by more than one section's length, separators counted; the
\* section is taken to be the longest of the input.
C16_AtMostOneOversizedChunk ==
    Returned
    => Cardinality({c \in DOMAIN ch_chunks :
                      Len(ch_chunks[c]) > ch_in.target_tokens * 4 + LongestSection})
          <= 1

\* C16 amended: every returned chunk made of more than one section has at
\* most target_tokens * 4 + 8 characters, separators counted, and every
\* other chunk is exactly one trimmed section.
C16_ChunkSizeBound ==
    Returned
    => \A c \in DOMAIN ch_chunks :
          IF Len(ch_parts[c]) > 1
          THEN Len(ch_chunks[c]) <= ch_in.target_tokens * 4 + 8
          ELSE Len(ch_parts[c]) = 1 /\ ch_chunks[c] = Trimmed(ch_parts[c][1])

C16_Witness ==
    /\ Returned
    /\ Len(ch_chunks) >= 2
    /\ \A c \in 1..2 :
          /\ Len(ch_parts[c]) = 2
          /\ Len(ch_chunks[c]) = ch_in.target_tokens * 4 + 8

\* Whether the execution extracted a text: the fetch and, for a PDF, the
\* text extraction went through.
TextExtracted(e) ==
    e.env.fetch = "ok" /\ ~(e.env.ctype = "pdf" /\ e.env.pdf = "error")

\* C17: an intake unit whose extracted text has fewer than 100 characters
\* (100 are accepted), or whose document is a duplicate, ends with a result:
\* no retry is scheduled, no understanding unit is emitted, and in the
\* too-short case nothing is recorded in the dedup store.
C17_RejectedContentIsTerminal ==
    intake_last # <<>>
    => LET e == intake_last[1]
       IN /\ (TextExtracted(e) /\ e.env.text.len < 100)
             => /\ e.result = "Content too short"
                /\ e.retried = 0
                /\ ~e.forwarded
                /\ ~e.store_changed
          /\ (TextExtracted(e) /\ e.env.text.len >= 100)
             => e.result # "Content too short"
          /\ e.duplicate
             => /\ e.result = "Duplicate content"
                /\ e.retried = 0
                /\ ~e.forwarded

C17_Witness ==
    /\ intake_last # <<>>
    /\ intake_last[1].env.text.len = 99
    /\ intake_last[1].result = "Content too short"
    /\ seen_urls # {}
    /\ Len(q_understanding) = 1

\* C18: when robots.txt disallows the URL the unit ends for good: the page
\* is not requested, no retry is scheduled, nothing is recorded in the dedup
\* store, and no understanding unit is emitted.
C18_RobotsDenialIsPermanent ==
    (intake_last # <<>> /\ intake_last[1].env.fetch = "robots_denied")
    => /\ ~intake_last[1].page_requested
       /\ intake_last[1].result = "Fetch failed"
       /\ intake_last[1].retried = 0
       /\ ~intake_last[1].store_changed
       /\ ~intake_last[1].forwarded

C18_Witness ==
    /\ intake_last # <<>>
    /\ intake_last[1].env.fetch = "robots_denied"
    /\ intake_last[1].result = "Fetch failed"
    /\ intake_last[1].retries = 0
    /\ q_intake = <<>>

\* How often u occurs in a sequence.
CountIn(seq, u) == Cardinality({k \in DOMAIN seq : seq[k] = u})

\* The results over all queries whose search returned that carry URL u, as
\* (query, position) pairs.
HitsWith(search, u) ==
    { p \in (DOMAIN search) \X (1..5) :
        /\ search[p[1]].ok
        /\ p[2] \in DOMAIN search[p[1]].results
        /\ search[p[1]].results[p[2]].has
        /\ search[p[1]].results[p[2]].url = u }

\* C19: whichever queries' searches fail, plan_and_search still searches
\* every query, forwards each result carrying a non-empty URL of the other
\* queries as exactly one intake unit, forwards nothing for results without
\* a URL and nothing for the failing queries, and ends with success.
C19_FailedQueriesIsolated ==
    (disc_last # <<>> /\ disc_last[1].cfg.ok /\ disc_last[1].env.send = "ok")
    => LET e == disc_last[1]
       IN /\ e.result = "success"
          /\ e.retried = 0
          /\ e.searched = DOMAIN PlannedQueries(e.cfg)
          /\ \A u \in IntakeUrls : CountIn(e.sent, u) = Cardinality(HitsWith(e.env.search, u))
          /\ \A k \in DOMAIN e.sent : e.sent[k] \in IntakeUrls
          /\ q_intake = [k \in DOMAIN e.sent |-> [url |-> e.sent[k], retries |-> 0]]

C19_Witness ==
    /\ disc_last # <<>>
    /\ disc_last[1].cfg.ok
    /\ disc_last[1].env.send = "ok"
    /\ Len(disc_last[1].env.search) >= 3
    /\ ~disc_last[1].env.search[1].ok
    /\ disc_last[1].env.search[2].ok
    /\ Len(disc_last[1].env.search[2].results) = 5
    /\ ~disc_last[1].env.search[3].ok
    /\ Len(q_intake) = 3

\* C20 as stated: when every search of a discovery run fails because the
\* search collaborator is unreachable, the unit is handed back to the queue
\* for a retry, until its 3 retries are used up.
C20_UnreachableSearchRetried ==
    (/\ disc_last # <<>>
     /\ disc_last[1].cfg.ok
     /\ disc_last[1].env.search # <<>>
     /\ \A k \in DOMAIN disc_last[1].env.search : ~disc_last[1].env.search[k].ok)
    => disc_last[1].result \in {"retry", "retries_exhausted"}

\* The topics a call works with: the given ones, or the five defaults when
\* none are given.
TopicsUsed(topics) ==
    IF Len(topics) = 0
    THEN <<"technology", "science", "policy", "regulation", "guidelines">>
    ELSE topics

WithPlaceholder(ts) == {k \in DOMAIN ts : \E p \in DOMAIN ts[k] : ts[k][p] = "{topic}"}

\* number of queries the templates before position k give rise to
RECURSIVE QueriesBefore(_, _, _)
QueriesBefore(ts, n, k) ==
    IF k <= 1 THEN 0
    ELSE QueriesBefore(ts, n, k - 1)
         + (IF (k - 1) \in WithPlaceholder(ts) THEN n ELSE 1)

\* C21: expand_queries returns, template by template in the given order, one
\* query per topic (in topic order, every placeholder replaced by the
\* topic) for a template with the placeholder and the template itself for a
\* template without; with no topics given the five default topics are used;
\* the length is (#templates with placeholder * #topics) + #templates without.
C21_QueriesPerTemplateAndTopic ==
    (call_in.fn = "expand_queries" /\ call_out.done) =>
        LET ts == call_in.query_templates
            us == TopicsUsed(call_in.topics)
            out == call_out.value
            with == WithPlaceholder(ts)
        IN /\ Len(out) = Cardinality(with) * Len(us)
                           + Cardinality(DOMAIN ts \ with)
           /\ \A k \in DOMAIN ts :
                 LET at == QueriesBefore(ts, Len(us), k)
                 IN IF k \in with
                    THEN \A j \in DOMAIN us :
                            /\ at + j \in DOMAIN out
                            /\ Len(out[at + j]) = Len(ts[k])
                            /\ \A p \in DOMAIN ts[k] :
                                  out[at + j][p] =
                                     IF ts[k][p] = "{topic}" THEN us[j] ELSE ts[k][p]
                    ELSE /\ at + 1 \in DOMAIN out
                         /\ out[at + 1] = ts[k]

\* templates of both kinds, one with two placeholders, expanded with the
\* default topics
C21_Witness ==
    /\ call_in.fn = "expand_queries" /\ call_out.done
    /\ call_in.topics = <<>>
    /\ call_in.query_templates = << <<"{topic}", "vs", "{topic}">>, <<"tax", "news">> >>
    /\ Len(call_out.value) = 6

\* C24: whenever embedding generation fails for a document, the request to
\* the embedding provider included, the payload forwarded to editorial has
\* the empty list as its vectors; no placeholder vectors are forwarded.
C24_FailedEmbeddingForwardsNoVectors ==
    \A k \in DOMAIN und_last :
        (und_last[k].env.embed # "ok" /\ und_last[k].emitted = 1) =>
            Last(q_editorial).vectors = <<>>

\* the execution in which every sub-step of classify_ner succeeds
AllSucceed(env) ==
    [cls |-> "ok", ner |-> "ok", chunk |-> "ok", embed |-> "ok", send |-> env.send]

\* C25 as stated: every failed sub-step of classify_ner is replaced by its
\* fallback (default labels; no entities and no edges; the whole text as the
\* only chunk), and every sub-step that succeeded, embedding included, gives the value it
\* gives when no sub-step fails.
C25_FailureChangesNoOtherSubStep ==
    \A k \in DOMAIN und_last :
        und_last[k].emitted = 1 =>
            LET e == und_last[k].env
                d == und_last[k].doc
                p == Last(q_editorial)
                ref == UndPayload(d, AllSucceed(e))
            IN /\ p.labels = IF e.cls = "ok" THEN ref.labels
                              ELSE [doc_type |-> "article", language |-> "en",
                                    audience |-> "general"]
               /\ p.entities = IF e.ner = "ok" THEN ref.entities ELSE <<>>
               /\ p.edges = IF e.ner = "ok" THEN ref.edges ELSE <<>>
               /\ p.chunks = IF e.chunk = "ok" THEN ref.chunks
                              ELSE <<[of |-> d.text.id, part |-> "whole"]>>
               /\ e.embed = "ok" => p.vectors = ref.vectors

\* C25, amended: labels, entities with edges, and chunks each depend on the
\* outcome of their own sub-step only and take the documented fallback when
\* it fails; the vectors of a successful embedding are one per forwarded
\* chunk, so they follow the chunk list in force.
C25_FallbackPerSubStep ==
    \A k \in DOMAIN und_last :
        und_last[k].emitted = 1 =>
            LET e == und_last[k].env
                d == und_last[k].doc
                p == Last(q_editorial)
                ref == UndPayload(d, AllSucceed(e))
            IN /\ p.labels = IF e.cls = "ok" THEN ref.labels
                              ELSE [doc_type |-> "article", language |-> "en",
                                    audience |-> "general"]
               /\ p.entities = IF e.ner = "ok" THEN ref.entities ELSE <<>>
               /\ p.edges = IF e.ner = "ok" THEN ref.edges ELSE <<>>
               /\ p.chunks = IF e.chunk = "ok" THEN ref.chunks
                              ELSE <<[of |-> d.text.id, part |-> "whole"]>>
               /\ e.embed = "ok" =>
                     /\ Len(p.vectors) = Len(p.chunks)
                     /\ \A i \in DOMAIN p.vectors : p.vectors[i] = "embedding"

\* classification and chunking fail, entity extraction and embedding succeed
C25_Witness ==
    \E k \in DOMAIN und_last :
        /\ und_last[k].emitted = 1
        /\ und_last[k].env.cls = "error" /\ und_last[k].env.chunk = "error"
        /\ und_last[k].env.ner = "ok" /\ und_last[k].env.embed = "ok"
        /\ Last(q_editorial).entities # <<>>
        /\ Len(Last(q_editorial).vectors) = 1

\* C26: the claim list summarize_and_qc forwards has at most 10 entries, the
\* first 10 extracted ones in order, and is empty whenever claim extraction
\* fails; when it is empty, corroborate_claims is not called, the citation
\* list is empty and the unit is forwarded all the same.
C26_ClaimListCappedAndEmptyOnFailure ==
    \A k \in DOMAIN ed_last :
        LET e == ed_last[k].env
        IN /\ ed_last[k].emitted = 1 =>
                 LET p == Last(q_ingestion)
                     claims == p.editorial_claims[1]
                 IN /\ Len(claims) <= 10
                    /\ e.claims = "ok" =>
                          /\ Len(claims) = IF e.n <= 10 THEN e.n ELSE 10
                          /\ \A i \in DOMAIN claims : claims[i] = ClaimText(i)
                    /\ e.claims # "ok" => claims = <<>>
                    /\ claims = <<>> =>
                          /\ ~ed_last[k].corroborate_called
                          /\ p.abstract_citations = << <<>> >>
           /\ ((e.claims # "ok" \/ e.n = 0) /\ e.send = "ok") =>
                 /\ ed_last[k].emitted = 1
                 /\ ed_last[k].result = "success"

\* eleven claims are extracted and ten forwarded
C26_Witness ==
    \E k \in DOMAIN ed_last :
        /\ ed_last[k].emitted = 1
        /\ ed_last[k].env.claims = "ok" /\ ed_last[k].env.n = 11
        /\ ed_last[k].corroborate_called
        /\ Len(Last(q_ingestion).editorial_claims[1]) = 10

\* the keys of the tracking denylist among the keys of the model: the ones
\* beginning with utm_, and the six fixed names
OnTrackingDenylist(key) ==
    key \in {"utm_source", "utm_id", "fbclid", "gclid", "wt_mc", "wt_zmc", "_ga", "_gid"}

KeptByDenylist(p) == ~OnTrackingDenylist(p.key)

\* C27: canonicalize_url removes every query parameter whose key is on the
\* tracking denylist (every key beginning with utm_, fbclid, gclid, wt_mc,
\* wt_zmc, _ga, _gid) and keeps scheme, host, path and every other query
\* parameter, in the original order.
C27_RemovesExactlyDeniedParams ==
    (call_in.fn = "canonicalize_url" /\ call_out.done) =>
        /\ call_out.value.base = call_in.url.base
        /\ call_out.value.query = SelectSeq(call_in.url.query, KeptByDenylist)

\* C28: every document fetch_extract submits to the dedup store and forwards
\* to understanding carries the SHA-256 hash of exactly its text as
\* content_hash and canonicalize_url of its url as canonical_url, and these
\* two values are the keys is_duplicate checks and records.
C28_DedupKeysAreHashAndCanonicalUrl ==
    \A k \in DOMAIN intake_last :
        LET x == intake_last[k]
        IN /\ x.forwarded => x.submitted # <<>>
           /\ \A j \in DOMAIN x.submitted :
                 LET d == x.submitted[j]
                 IN /\ d.text = x.env.text
                    /\ d.content_hash = <<"sha256", d.text.id>>
                    /\ d.canonical_url = canonicalize_url(d.url)
                    /\ x.forwarded => Last(q_understanding) = d
                    /\ ~x.duplicate =>
                          /\ x.store_changed
                          /\ d.canonical_url \in seen_urls
                          /\ d.content_hash \in seen_hashes
                    /\ x.duplicate =>
                          /\ ~x.store_changed
                          /\ \/ d.canonical_url \in seen_urls
                             \/ d.content_hash \in seen_hashes

\* a URL with a tracking parameter is fetched, recorded and forwarded
C28_Witness ==
    \E k \in DOMAIN intake_last :
        /\ intake_last[k].forwarded
        /\ intake_last[k].url.query # <<>>
        /\ Last(q_understanding).canonical_url.query = <<>>
        /\ Last(q_understanding).content_hash \in seen_hashes

EntityNames(entities) == {entities[i].name : i \in DOMAIN entities}

BothEndsNamed(entities, edge) ==
    edge.source \in EntityNames(entities) /\ edge.target \in EntityNames(entities)

\* positions of the edges whose two endpoints name an entity
NamedEdges(entities, edges) ==
    {i \in DOMAIN edges : BothEndsNamed(entities, edges[i])}

\* C29: graph_upsert drops every edge whose source or target names no
\* entity, without raising; it writes every entity and every edge whose two
\* endpoints resolve; it issues no graph query when nothing is left to write.
C29_UnresolvedEdgesDropped ==
    (call_in.fn = "graph_upsert" /\ call_out.done) =>
        LET es == call_in.entities
            ds == call_in.edges
            kept == NamedEdges(es, ds)
            nothing == es = <<>> /\ kept = {}
        IN /\ call_out.raised =>
                 \/ call_in.env.client # "ok" /\ (es # <<>> \/ ds # <<>>)
                 \/ call_in.env.query # "ok" /\ ~nothing
           /\ nothing => call_out.queries = <<>>
           /\ (~nothing /\ call_in.env.client = "ok") =>
                 /\ Len(call_out.queries) = 1
                 /\ LET q == call_out.queries[1]
                        rels == SelectSeq(q, LAMBDA c : c.kind = "rel")
                    IN /\ Len(q) = Len(es) + Cardinality(kept)
                       /\ \A i \in DOMAIN es :
                             /\ q[i].kind = "node"
                             /\ q[i].name = es[i].name
                             /\ q[i].label = es[i].type
                             /\ q[i].a = i - 1
                       /\ Len(rels) = Cardinality(kept)
                       /\ \A r \in DOMAIN rels :
                             \E i \in kept :
                                /\ Cardinality({j \in kept : j <= i}) = r
                                /\ rels[r].label = ds[i].relation
                                /\ es[rels[r].a + 1].name = ds[i].source
                                /\ es[rels[r].b + 1].name = ds[i].target

\* two entities, one edge between them and one edge to an unknown name: one
\* query with three clauses
C29_Witness ==
    /\ call_in.fn = "graph_upsert" /\ call_out.done
    /\ Len(call_in.entities) = 2 /\ Len(call_in.edges) = 2
    /\ Cardinality(NamedEdges(call_in.entities, call_in.edges)) = 1
    /\ ~call_out.raised
    /\ Len(call_out.queries) = 1 /\ Len(call_out.queries[1]) = 3

\* the number a sequence of decimal digits stands for
DigitValue(c) == CHOOSE v \in 0..9 : <<"0", "1", "2", "3", "4", "5", "6", "7", "8", "9">>[v + 1] = c
RECURSIVE NumberOf(_)
NumberOf(digits) ==
    IF digits = <<>> THEN 0
    ELSE 10 * NumberOf(SubSeq(digits, 1, Len(digits) - 1)) + DigitValue(digits[Len(digits)])

\* C30: upsert_document maps a payload with n chunks to exactly n chunk
\* records in the original order, the i-th with id "c<i>", order i and the
\* text of the i-th chunk; the orders are exactly 1..n and the ids are
\* pairwise distinct.
C30_ChunkRecordsNumberedFromOne ==
    (call_in.fn = "upsert_document" /\ call_out.done) =>
        LET chunks == call_in.payload.chunks
            recs == call_out.chunks
        IN /\ Len(recs) = Len(chunks)
           /\ \A i \in DOMAIN recs :
                 /\ recs[i].text = chunks[i]
                 /\ recs[i].order = i
                 /\ Head(recs[i].id) = "c"
                 /\ Tail(recs[i].id) # <<>>
                 /\ NumberOf(Tail(recs[i].id)) = i
                 /\ (Len(recs[i].id) > 2 => recs[i].id[2] # "0")
           /\ {recs[i].order : i \in DOMAIN recs} = 1..Len(chunks)
           /\ \A i, j \in DOMAIN recs : i # j => recs[i].id # recs[j].id

\* ten chunks: the last record has the two-digit id c10
C30_Witness ==
    /\ call_in.fn = "upsert_document" /\ call_out.done
    /\ Len(call_in.payload.chunks) = 10
    /\ call_out.chunks[10].id = <<"c", "1", "0">>
    /\ call_out.chunks[1].text # call_out.chunks[2].text

\* the re-executions of every pending and every latest-run unit stay within
\* the retry limit of its stage
RetriesWithinLimits ==
    /\ \A k \in DOMAIN q_disc : q_disc[k].retries <= 3
    /\ \A k \in DOMAIN disc_last : disc_last[k].retries <= 3
    /\ \A k \in DOMAIN q_intake : q_intake[k].retries <= 2
    /\ \A k \in DOMAIN intake_last : intake_last[k].retries <= 2
    /\ \A k \in DOMAIN q_und_in : q_und_in[k].retries <= 2
    /\ \A k \in DOMAIN und_last : und_last[k].retries <= 2
    /\ \A k \in DOMAIN q_ed_in : q_ed_in[k].retries <= 2
    /\ \A k \in DOMAIN ed_last : ed_last[k].retries <= 2

QueuesEmpty ==
    /\ q_disc = <<>>
    /\ q_intake = <<>>
    /\ q_understanding = <<>> /\ q_und_in = <<>>
    /\ q_editorial = <<>> /\ q_ed_in = <<>>
    /\ q_ingestion = <<>> /\ q_ing_in = <<>>

\* every execution ends with one of the outcomes of its task
OutcomesKnown ==
    /\ \A k \in DOMAIN disc_last :
          disc_last[k].result \in {"success", "retry", "retries_exhausted"}
    /\ \A k \in DOMAIN intake_last :
          intake_last[k].result \in
             {"success", "Fetch failed", "PDF extraction failed", "Content too short",
              "Duplicate content", "retry", "retries_exhausted"}
    /\ \A k \in DOMAIN und_last :
          und_last[k].result \in {"success", "retry", "retries_exhausted"}
    /\ \A k \in DOMAIN ed_last :
          ed_last[k].result \in {"success", "retry", "retries_exhausted"}
    /\ \A k \in DOMAIN ing_last :
          ing_last[k].result \in {"success", "retry", "failed"}

\* C22: with finitely many results and workers that keep taking units,
\* every unit ends ingested, rejected or dropped after its retries, the five
\* stage queues end up empty for good, and no unit is executed again more
\* often than the retry limit of its stage (discovery 3, intake 2,
\* understanding 2, editorial 2).
C22_EveryUnitTerminates ==
    /\ [](RetriesWithinLimits /\ OutcomesKnown)
    /\ <>[]QueuesEmpty

\* the run is over: the document was ingested after its understanding and
\* editorial units had been retried, and the last ingestion unit was dropped
\* with its retries used up
C22_Witness ==
    /\ QueuesEmpty
    /\ ing_created > 0
    /\ \E k \in DOMAIN und_last : und_last[k].retries = 2
    /\ \E k \in DOMAIN ed_last : ed_last[k].retries = 2
    /\ \E k \in DOMAIN ing_last : ing_last[k].result = "failed"

\* position of the first execution of the stage for the URL, 0 when none
FirstRun(hist, stage, url) ==
    IF \E k \in DOMAIN hist.events : hist.events[k] = [stage |-> stage, url |-> url]
    THEN CHOOSE k \in DOMAIN hist.events :
            hist.events[k] = [stage |-> stage, url |-> url]
    ELSE 0

\* intake, understanding and editorial have run for the URL, in this order
StagesRanInOrder(hist, url) ==
    /\ 0 < FirstRun(hist, "intake", url)
    /\ FirstRun(hist, "intake", url) < FirstRun(hist, "understanding", url)
    /\ FirstRun(hist, "understanding", url) < FirstRun(hist, "editorial", url)

\* C23: a step of plan_and_search adds units to the intake queue only, of
\* fetch_extract to the understanding queue only and only with result
\* success, of classify_ner to the editorial queue only, of summarize_and_qc
\* to the ingestion queue only, and write_to_0711 sends nothing to another
\* queue; every ingestion unit of a document comes after an intake, an
\* understanding and an editorial execution for it, in this order; only
\* plan_and_search sends more than one unit in one execution.
C23_StagesFeedOnlyTheNext ==
    [][ LET task == pipe_hist'.last
            sentIntake == Len(q_intake') - Len(q_intake)
            sentUnd == Len(q_understanding') - Len(q_understanding)
            sentEd == Len(q_editorial') - Len(q_editorial)
            sentIng == Len(q_ingestion') - Len(q_ingestion)
        IN /\ sentIntake > 0 => task = "discovery"
           /\ sentUnd > 0 =>
                 /\ task = "intake" /\ sentUnd = 1
                 /\ intake_last'[1].result = "success"
                 /\ intake_last'[1].env.fetch = "ok"
           /\ sentEd > 0 => task = "understanding" /\ sentEd = 1
           /\ sentIng > 0 => task = "editorial" /\ sentIng = 1
           /\ task = "discovery" => sentUnd <= 0 /\ sentEd <= 0 /\ sentIng <= 0
           /\ task = "intake" => sentEd <= 0 /\ sentIng <= 0
           /\ task = "understanding" => sentIntake <= 0 /\ sentUnd <= 0 /\ sentIng <= 0
           /\ task = "editorial" => sentIntake <= 0 /\ sentUnd <= 0 /\ sentEd <= 0
           /\ task = "ingestion" =>
                 /\ sentIntake <= 0 /\ sentUnd <= 0 /\ sentEd <= 0 /\ sentIng <= 0
                 /\ q_disc' = q_disc
           /\ \A k \in DOMAIN q_ingestion' :
                 StagesRanInOrder(pipe_hist', q_ingestion'[k].url)
           /\ \A k \in DOMAIN q_ing_in' :
                 StagesRanInOrder(pipe_hist', q_ing_in'[k].payload.url)
           /\ \A k \in DOMAIN pipe_hist'.events :
                 pipe_hist'.events[k].stage = "ingestion" =>
                    /\ StagesRanInOrder(pipe_hist', pipe_hist'.events[k].url)
                    /\ FirstRun(pipe_hist', "editorial", pipe_hist'.events[k].url) < k
      ]_vars

\* plan_and_search has sent two intake units in one execution and one of the
\* documents has reached write_to_0711
C23_Witness ==
    /\ pipe_hist.last = "ingestion"
    /\ \E k \in DOMAIN disc_last : Len(disc_last[k].sent) = 2
    /\ \E k \in DOMAIN pipe_hist.events : pipe_hist.events[k].stage = "ingestion"
    /\ ing_created > 0

\* C33: the dedup store is monotonic: over any sequence of is_duplicate
\* calls the set of seen canonical URLs and the set of seen content hashes
\* only grow; no step removes an entry.
C33_StoreOnlyGrows ==
    [][seen_urls \subseteq seen_urls' /\ seen_hashes \subseteq seen_hashes']_vars

\* a third call found a store holding two URLs and two hashes, after a call
\* that returned True
C33_Witness ==
    /\ Len(calls) >= 3
    /\ Cardinality(calls[3].pre_urls) = 2
    /\ Cardinality(calls[3].pre_hashes) = 2
    /\ Cardinality(seen_urls) = 3
    /\ \E k \in DOMAIN calls : calls[k].ret

\* the store as the k-th call left it
UrlsAfter(k) == IF k < Len(calls) THEN calls[k + 1].pre_urls ELSE seen_urls
HashesAfter(k) == IF k < Len(calls) THEN calls[k + 1].pre_hashes ELSE seen_hashes

\* C38: an is_duplicate call that returns True leaves the seen-URL set and
\* the seen-hash set unchanged (a new URL with a seen hash is not recorded,
\* nor a new hash with a seen URL); a call that returns False adds exactly
\* the canonical URL and, when there is one, the content hash.
C38_TrueChangesNothingFalseAddsKeys ==
    \A k \in DOMAIN calls :
        LET c == calls[k]
        IN IF c.ret
           THEN /\ UrlsAfter(k) = c.pre_urls
                /\ HashesAfter(k) = c.pre_hashes
           ELSE /\ UrlsAfter(k) = c.pre_urls \cup {c.url}
                /\ HashesAfter(k) =
                      c.pre_hashes \cup (IF c.hash = "no_hash" THEN {} ELSE {c.hash})

\* a new URL came with a seen hash and a new hash with a seen URL; both
\* calls returned True and neither key was recorded
C38_Witness ==
    \E i, j \in DOMAIN calls :
        /\ calls[i].ret /\ calls[j].ret
        /\ calls[i].url \notin calls[i].pre_urls
        /\ calls[i].url \notin UrlsAfter(i)
        /\ calls[j].hash # "no_hash"
        /\ calls[j].hash \notin calls[j].pre_hashes
        /\ calls[j].hash \notin HashesAfter(j)

\* C35: a document fetch_extract has recorded in the dedup store is not
\* lost: when the unit is executed again after a failure behind the dedup
\* check, and the fetch, the extraction and the enqueue work, the document
\* (its canonical URL or its content) is on the understanding queue.
C35_RetriedDocumentForwarded ==
    \A k \in DOMAIN intake_last :
        LET x == intake_last[k]
        IN (x.retries > 0 /\ x.submitted # <<>> /\ x.env.send = "ok") =>
              \E j \in DOMAIN q_understanding :
                 \/ q_understanding[j].canonical_url = x.submitted[1].canonical_url
                 \/ q_understanding[j].content_hash = x.submitted[1].content_hash

\* C37: with one intake worker handling one unit at a time, no two
\* understanding units carry the same canonical URL or the same content
\* hash, whatever units arrive (repeated URLs and retried units included).
C37_NoTwoUnitsWithSameKeys ==
    \A i, j \in DOMAIN q_understanding :
        i # j =>
           /\ q_understanding[i].canonical_url # q_understanding[j].canonical_url
           /\ q_understanding[i].content_hash # q_understanding[j].content_hash

\* one document was forwarded; a unit with another URL and the same text
\* was then rejected as a duplicate
C37_Witness ==
    /\ Len(q_understanding) = 1
    /\ \E k \in DOMAIN intake_last :
          /\ intake_last[k].result = "Duplicate content"
          /\ intake_last[k].submitted[1].content_hash = q_understanding[1].content_hash
          /\ intake_last[k].submitted[1].canonical_url # q_understanding[1].canonical_url

\* C36: over all the executions the retries of one ingestion unit give rise
\* to, the document upsert succeeds at most once: one unit creates at most
\* one document in the knowledge store.
C36_AtMostOneDocumentPerUnit == ing_created <= 1

C39_LaterChunksBeginWithOverlap ==
    (/\ call_in.fn = "chunk_by_sentences" /\ call_out.done
     /\ call_in.args.overlap_tokens > 0
     /\ Len(call_out.chunks) > 1) =>
        \A i \in 2..Len(call_out.chunks) :
            LET prev == call_out.chunks[i - 1]
                this == call_out.chunks[i]
            IN \E n \in 1..Len(prev) :
                  /\ n < Len(this)
                  /\ SubSeq(this, 1, n) = SubSeq(prev, Len(prev) - n + 1, Len(prev))

C31_RejectedCreateStillUpserts ==
    /\ [](call_in.fn = "create_collection_if_missing" =>
            \A w \in EnsuringWorkers :
                /\ (call_out.sent[w] \/ call_out.pc[w] = "create")
                      => call_out.listed[w] = "absent"
                /\ call_out.rejected[w] => call_out.pc[w] \in {"upsert", "done"}
                /\ call_out.pc[w] = "done" => call_out.upserted[w])
    /\ \A w \in EnsuringWorkers :
         (call_in.fn = "create_collection_if_missing" /\ call_out.rejected[w])
            ~> call_out.upserted[w]

\* two workers listed the collection as absent, the first created it, the
\* create request of the second was rejected, and both upserted
C31_Witness ==
    /\ call_in.fn = "create_collection_if_missing"
    /\ \E v, w \in EnsuringWorkers :
         /\ call_out.sent[v] /\ ~call_out.rejected[v]
         /\ call_out.sent[w] /\ call_out.rejected[w]
         /\ call_out.upserted[v] /\ call_out.upserted[w]

\* C32: a missing credential or configuration is reported when the
\* processes start, before a unit is processed, and never shows first as
\* the failure or the retry of a unit.
C32_MissingConfigSurfacesAtStartup ==
    call_in.fn = "startup" =>
        /\ call_out.unit_failures = {} /\ call_out.retries = 0
        /\ (/\ call_out.started = Processes
            /\ \E k \in {"store", "search", "llm", "vertical"} : ~call_in.env[k])
           => call_out.startup_errors # {}

====
